---- MODULE Spec2Model ----
(***************************************************************************)
(* Model of src/server.js: one lobby of the word game, its turn state      *)
(* machine, the timers it schedules on the event loop, and the socket      *)
(* handlers that reach it.                                                  *)
(*                                                                         *)
(* Time is explicit.  One unit of model time is 500 ms.  Every setTimeout   *)
(* and setInterval of the source is an entry of `pending`; time advances   *)
(* (Tick) only when no exact timer is due, as on the single-threaded event *)
(* loop.  The turn interval (every 50 ms, step 0.05 s) runs ten times in a *)
(* unit: Tick takes its decrements of timerValue, TimerTick is the run     *)
(* that finds timerValue <= 0.                                              *)
(***************************************************************************)
EXTENDS Integers, Sequences, FiniteSets, TLC

\* ---------------------------------------------------------------- bounds
\* number of durable identities (each with one connection at a time)
NumPlayers == 3
\* number of disturbances explored in one behaviour: disconnect notifications,
\* lobby:leave events and game:start events after the first game
MaxDisturbances == 1

\* accepted words in a game whose scores are followed
MaxScored == 1
\* calls of isRateLimited explored beyond the cap of the event
ExtraCalls == 2
\* units of time explored beyond the window of the event
ExtraTime == 2
\* connections of guests that create lobbies of their own
NumGuests == 2
\* lobbies a guest creates, fewer than the 3 in 10 s the rate limit allows
MaxCreates == 2
\* codes that generateLobbyCode can draw (32^6 in the program)
NumCodes == 2
MaxSockets == 2

\* ------------------------------------------- program constants (500 ms units)
\* settings.startLives, as set by the host with lobby:settings (range [1,5])
StartLives == 1
\* settings.turnTime, as set by the host with lobby:settings (5 s, range [5,30] s)
TurnTime == 10
\* settings.minWordLength
MinWordLength == 2
\* settings.maxPlayers
MaxPlayers == 8
\* setTimeout(..., 500) after an accepted word
SubmitDelay == 1
\* setTimeout(..., 1500) after a timeout
TimeoutDelay == 3
\* setTimeout(..., 5000) after endGame
ResetDelay == 10
\* setInterval(..., 5000) of the AFK checker
AfkPeriod == 10
\* disconnectTime > 5000
AfkThreshold == 10
\* sanitizeText(word, 50)
MaxWordLen == 50
\* sanitizeText(text, 50) of updateTyping
MaxTypingLen == 50
\* the times (in units) from a disconnect to the AFK checker's next run that
\* are explored: the soonest and the latest
AfkPhases == {1, AfkPeriod}
\* the lobby creator
Host == 1
\* the value NaN of currentTurnIndex ((i + 1) % 0)
NaN == -1
\* the value undefined of a score: addPlayer creates the player without one
Undefined == -1
\* the rate-limit sweep drops the timestamps older than 10 s
SweepAge == 20

\* ------------------------------------------------------------ rate limits
\* the events of one connection whose limits are explored
Events == {"lobby:create", "submit"}
\* isRateLimited(socket.id, 'lobby:create', 3, 10000) and (.., 'submit', 5, 1000)
maxRequests(event) == IF event = "lobby:create" THEN 3 ELSE 5
windowMs(event) == IF event = "lobby:create" THEN 20 ELSE 2

\* while (timestamps.length > 0 && timestamps[0] < limit) timestamps.shift(),
\* without the shift
DropOld_Keep(timestamps, limit) == timestamps

\* while (timestamps.length > 0 && timestamps[0] < limit) timestamps.shift()
RECURSIVE DropOld(_, _)
DropOld(timestamps, limit) ==
    IF Len(timestamps) > 0 /\ timestamps[1] < limit
    THEN DropOld(Tail(timestamps), limit)
    ELSE timestamps

\* ------------------------------------------------------------ word oracle
\* WORDS (ka_GE.txt): a small all-lower-case dictionary
WORDS == { <<"a","b">>, <<"b","a","b">>, <<"b","b">>, <<"a","b","a","b","a","b">> }
\* SYLLABLES
SYLLABLES == { <<"a","b">> }
\* words a client may send with game:submit
RawWords == { <<"a","b">>, <<"A","b">>, <<"<","x",">"," ","b","a","b">>,
              <<"b","b">>, <<"a","b","x">>, <<"a">> }
\* a word of more than 5 letters, sent in the games whose scores are followed
LongWords == { <<"a","b","a","b","a","b">> }

Min(a, b) == IF a < b THEN a ELSE b
Max(a, b) == IF a > b THEN a ELSE b

\* first replace of sanitizeText: every "<", up to the next ">", is removed
RECURSIVE StripTags(_)
StripTags(s) ==
    IF s = << >> THEN << >>
    ELSE IF Head(s) = "<" /\ \E j \in 2..Len(s) : s[j] = ">"
         THEN LET j == CHOOSE k \in 2..Len(s) :
                          s[k] = ">" /\ \A m \in 2..(k-1) : s[m] # ">"
              IN StripTags(SubSeq(s, j + 1, Len(s)))
         ELSE <<Head(s)>> \o StripTags(Tail(s))

\* second replace of sanitizeText: the dangerous characters are removed
\* (the quote characters of the source's class do not occur in RawWords)
Dangerous(c) == c \in {"<", ">", "&"}
StripDangerous(s) == SelectSeq(s, LAMBDA c : ~Dangerous(c))

\* String.prototype.trim
RECURSIVE TrimLeft(_)
TrimLeft(s) == IF s # << >> /\ Head(s) = " " THEN TrimLeft(Tail(s)) ELSE s
RECURSIVE TrimRight(_)
TrimRight(s) ==
    IF s # << >> /\ s[Len(s)] = " " THEN TrimRight(SubSeq(s, 1, Len(s) - 1)) ELSE s
Trim(s) == TrimRight(TrimLeft(s))

\* String.prototype.toLowerCase
LowerChar(c) == IF c = "A" THEN "a" ELSE IF c = "B" THEN "b" ELSE IF c = "X" THEN "x" ELSE c
toLowerCase(s) == [i \in 1..Len(s) |-> LowerChar(s[i])]

sanitizeText(text, maxLength) ==
    LET t == StripDangerous(StripTags(text))
    IN Trim(SubSeq(t, 1, Min(Len(t), maxLength)))

\* String.prototype.includes
Includes(w, syl) ==
    \E i \in 1..(Len(w) - Len(syl) + 1) : SubSeq(w, i, i + Len(syl) - 1) = syl

validateWord(word, syllable) ==
    IF Len(word) < 2 THEN FALSE
    ELSE LET lowerWord == toLowerCase(word)
             lowerSyl == toLowerCase(syllable)
         IN IF ~Includes(lowerWord, lowerSyl) THEN FALSE
            ELSE \E w \in WORDS : toLowerCase(w) = lowerWord


\* ------------------------------------------------------------------ state
VARIABLES
    lobbies,            \* the registry: ids of the live lobbies
    players,            \* Lobby.players: sequence of seats
    state,              \* Lobby.state
    hostId,             \* Lobby.hostId
    settings,           \* Lobby.settings
    currentTurnIndex,   \* Lobby.currentTurnIndex (0-based, NaN possible)
    currentSyllable,    \* Lobby.currentSyllable
    usedWords,          \* Lobby.usedWords
    timer,              \* Lobby.timer: handle of the last turn interval, 0 = null
    timerValue,         \* Lobby.timerValue, in units
    turnLocked,         \* Lobby.turnLocked
    pending,            \* the event loop's timers: <<[kind, left, arg, aux]>>
    online,             \* online[p]: identity p has an open connection
    currentLobbyId,     \* players.get(p).currentLobbyId
    playerToSocket,     \* playerToSocket.get(p): number of p's socket, 0 = none
    budget,             \* disturbances still to be explored, by kind and in all
    started,            \* a game has been started
    turnTimeouts,       \* history: lives taken by handleTimeout since the last nextTurn
    turnAccepts,        \* history: words accepted since the last nextTurn
    rateLimits,         \* rateLimits: per event of one connection, its timestamps
    now,                \* Date.now() as the rate limiter reads it, in units
    history,            \* history: every call of isRateLimited, <<[event, at, limited]>>
    lobbyCode,          \* Lobby.code of every lobby constructed so far, by lobby id
    guests,             \* per guest connection: its currentLobbyId, lobbies made so far
    published,          \* the lobby:list that broadcastLobbyList emitted last
    socketToPlayer,     \* socketToPlayer: socket id -> playerId, of the sockets it holds
    connected           \* the sockets that are open

lobbyVars == <<players, state, hostId, settings, currentTurnIndex, currentSyllable,
               usedWords, timer, timerValue, turnLocked, pending,
               turnTimeouts, turnAccepts>>
vars == <<lobbies, players, state, hostId, settings, currentTurnIndex, currentSyllable,
          usedWords, timer, timerValue, turnLocked, pending, online,
          currentLobbyId, playerToSocket, budget, started,
          turnTimeouts, turnAccepts, rateLimits, now, history, lobbyCode, guests,
          published, socketToPlayer, connected>>
rateVars == <<rateLimits, now, history>>
socketVars == <<socketToPlayer, connected>>
registryVars == <<lobbyCode, guests, socketVars>>

\* the lobby object (and the timers it owns) as one value, so that the
\* Lobby methods can be written as functions from lobby to lobby
Self ==
    [players |-> players, state |-> state, hostId |-> hostId, settings |-> settings,
     currentTurnIndex |-> currentTurnIndex, currentSyllable |-> currentSyllable,
     usedWords |-> usedWords, timer |-> timer, timerValue |-> timerValue,
     turnLocked |-> turnLocked, pending |-> pending,
     turnTimeouts |-> turnTimeouts, turnAccepts |-> turnAccepts]

\* the AFK checker can act on the turn: a game is on and a seat is disconnected
Episode(s) ==
    s.state = "playing" /\ \E k \in 1..Len(s.players) : ~s.players[k].isConnected

\* What the model keeps of the clock.  Outside an episode the AFK checker
\* reads no disconnectedAt, so the time to its next run (left of "afk") and
\* the time since each disconnect (age) are not kept.
\* Nothing but the rankings of endGame reads a score: the scores are kept
\* only where they are followed (budget.scores).
Normalize(s) ==
    LET t == IF budget.scores THEN s
             ELSE [s EXCEPT !.players =
                      [k \in 1..Len(@) |-> [@[k] EXCEPT !.score = Undefined]]]
    IN IF Episode(t) THEN t
       ELSE [t EXCEPT
            !.pending = [k \in 1..Len(@) |->
                IF @[k].kind = "afk" THEN [@[k] EXCEPT !.left = 0, !.aux = 0] ELSE @[k]],
            !.players = [k \in 1..Len(@) |-> [@[k] EXCEPT !.age = 0]]]

Becomes(s) ==
    \E n \in {Normalize(s)} :
       /\ players' = n.players
       /\ state' = n.state
       /\ hostId' = n.hostId
       /\ settings' = n.settings
       /\ currentTurnIndex' = n.currentTurnIndex
       /\ currentSyllable' = n.currentSyllable
       /\ usedWords' = n.usedWords
       /\ timer' = n.timer
       /\ timerValue' = n.timerValue
       /\ turnLocked' = n.turnLocked
       /\ pending' = n.pending
       /\ turnTimeouts' = n.turnTimeouts
       /\ turnAccepts' = n.turnAccepts

\* ------------------------------------------------------ event-loop timers
\* stale is history: the timer was pending when endGame or destroy ran; aux
\* of an "advance" or "timeout" timer is history too: the id of the player
\* whose word or timeout set it
Item(kind, left, arg, aux) ==
    [kind |-> kind, left |-> left, arg |-> arg, aux |-> aux, stale |-> FALSE]
\* timers that run at their exact time
ShortKinds == {"tick", "advance", "timeout", "reset"}
\* timers whose exact time is not tracked.  "grace" (30 s) and "purge" (5 min)
\* run at some instant after every exact timer that was set before them has
\* run.  "afk" (the 5 s interval) is exact during an episode (aux = 1): the
\* time to its next run is chosen when the episode begins, since it depends
\* on when the lobby was created.  Outside an episode (aux = 0) its runs do
\* nothing but the inactivity check, which is taken when it deletes the lobby.
LongKinds == {"afk", "grace", "purge"}

RemoveAt(seq, i) == SubSeq(seq, 1, i - 1) \o SubSeq(seq, i + 1, Len(seq))

\* setTimeout / setInterval
Schedule(s, it) == [s EXCEPT !.pending = Append(@, it)]

\* clearInterval(handle) for a turn interval
clearInterval(s, handle) ==
    [s EXCEPT !.pending = SelectSeq(@, LAMBDA it : ~(it.kind = "tick" /\ it.arg = handle))]

\* a handle no live turn interval has
FreshTimer(s) ==
    CHOOSE i \in 1..(Len(s.pending) + 1) :
        /\ \A k \in 1..Len(s.pending) :
              ~(s.pending[k].kind = "tick" /\ s.pending[k].arg = i)
        /\ \A j \in 1..(i - 1) :
              \E k \in 1..Len(s.pending) :
                  s.pending[k].kind = "tick" /\ s.pending[k].arg = j

LiveTimers(pend) == {k \in 1..Len(pend) : pend[k].kind = "tick"}

\* the callbacks of the lobby's turn: interval tick, advance after a word,
\* advance or end after a timeout
TurnKinds == {"tick", "advance", "timeout"}

\* history: the turn callbacks that are pending now were set before this point
MarkStale(s) ==
    [s EXCEPT !.pending = [k \in 1..Len(@) |->
        IF @[k].kind \in TurnKinds THEN [@[k] EXCEPT !.stale = TRUE] ELSE @[k]]]

\* ---------------------------------------------------------- Lobby methods
Seat(s, id) ==
    [id |-> id, lives |-> s.settings.startLives, score |-> Undefined,
     wordsCompleted |-> 0, isConnected |-> TRUE, isReady |-> FALSE, age |-> 0,
     currentInput |-> << >>]

\* players.findIndex(p => p.id === playerId), 1-based, 0 when absent
IndexOf(ps, pid) ==
    IF \E i \in 1..Len(ps) : ps[i].id = pid
    THEN CHOOSE i \in 1..Len(ps) : ps[i].id = pid /\ \A j \in 1..(i-1) : ps[j].id # pid
    ELSE 0

Seated(ps, pid) == IndexOf(ps, pid) # 0

\* this.players[this.currentTurnIndex] exists
HasCurrent(s) == s.currentTurnIndex >= 0 /\ s.currentTurnIndex < Len(s.players)
Current(s) == s.players[s.currentTurnIndex + 1]

getAlivePlayers(ps) == SelectSeq(ps, LAMBDA p : p.lives > 0)

\* (i + 1) % n of JavaScript
NextIndex(i, n) == IF n = 0 \/ i = NaN THEN NaN ELSE (i + 1) % n

destroy(s) ==
    MarkStale([s EXCEPT !.pending = SelectSeq(@, LAMBDA it :
        ~(it.kind = "afk") /\ ~(it.kind = "tick" /\ it.arg = s.timer))])

\* endGame without the setTimeout that puts the lobby back to waiting
endGame_NoReset(s) ==
    LET s1 == MarkStale(clearInterval(s, s.timer))
    IN [s1 EXCEPT !.state = "finished", !.turnTimeouts = 0, !.turnAccepts = 0]

endGame(s) ==
    LET s1 == MarkStale(clearInterval(s, s.timer))
        s2 == [s1 EXCEPT !.state = "finished", !.turnTimeouts = 0, !.turnAccepts = 0]
    IN Schedule(s2, Item("reset", ResetDelay, 0, 0))

\* the loop of nextTurn that skips the players without lives
RECURSIVE SkipDead(_, _, _)
SkipDead(ps, i, checks) ==
    IF i >= 0 /\ i < Len(ps) /\ ps[i + 1].lives <= 0 /\ checks < Len(ps)
    THEN SkipDead(ps, (i + 1) % Len(ps), checks + 1)
    ELSE i

\* nextTurn without `if (this.timer) clearInterval(this.timer)`
nextTurn_NoCancel(s, syl) ==
    LET s1 == [s EXCEPT !.turnLocked = FALSE,
                        !.currentTurnIndex = SkipDead(s.players, @, 0),
                        !.currentSyllable = syl,
                        !.timerValue = s.settings.turnTime,
                        !.turnTimeouts = 0,
                        !.turnAccepts = 0]
        id == FreshTimer(s1)
    IN Schedule([s1 EXCEPT !.timer = id], Item("tick", 0, id, 0))

nextTurn(s, syl) ==
    LET s1 == [s EXCEPT !.turnLocked = FALSE,
                        !.currentTurnIndex = SkipDead(s.players, @, 0),
                        !.currentSyllable = syl,
                        !.timerValue = s.settings.turnTime,
                        !.turnTimeouts = 0,
                        !.turnAccepts = 0]
        s2 == clearInterval(s1, s1.timer)
        id == FreshTimer(s2)
    IN Schedule([s2 EXCEPT !.timer = id], Item("tick", 0, id, 0))

\* handleTimeout that returns once the turn is locked
handleTimeout_LockOnly(s) == [clearInterval(s, s.timer) EXCEPT !.turnLocked = TRUE]

\* handleTimeout without `loser.lives--`
handleTimeout_NoLife(s) ==
    LET s1 == [clearInterval(s, s.timer) EXCEPT !.turnLocked = TRUE]
    IN IF ~HasCurrent(s1) THEN s1
       ELSE LET i == s1.currentTurnIndex + 1
                s2 == [s1 EXCEPT !.players[i].currentInput = << >>,
                                 !.turnTimeouts = Min(@ + 1, 2)]
                alivePlayers == getAlivePlayers(s2.players)
            IN Schedule(s2, Item("timeout", TimeoutDelay, Len(alivePlayers), s1.players[i].id))

handleTimeout(s) ==
    LET s1 == [clearInterval(s, s.timer) EXCEPT !.turnLocked = TRUE]
    IN IF ~HasCurrent(s1) THEN s1
       ELSE LET i == s1.currentTurnIndex + 1
                s2 == [s1 EXCEPT !.players[i].lives = @ - 1,
                                 !.players[i].currentInput = << >>,
                                 !.turnTimeouts = Min(@ + 1, 2)]
                alivePlayers == getAlivePlayers(s2.players)
            IN Schedule(s2, Item("timeout", TimeoutDelay, Len(alivePlayers), s1.players[i].id))

\* removePlayer without the endGame of a game that is left with one player alive
removePlayer_NoEnd(s, playerId) ==
    LET index == IndexOf(s.players, playerId) - 1
    IN IF index = -1 THEN s
       ELSE
        LET ps == RemoveAt(s.players, index + 1)
            s1 == [s EXCEPT !.players = ps,
                            !.hostId = IF s.hostId = playerId /\ Len(ps) > 0
                                          /\ playerId # Host
                                       THEN ps[1].id ELSE @]
        IN IF s1.state # "playing" THEN s1
           ELSE
            LET cti == s1.currentTurnIndex
            IN [s1 EXCEPT !.currentTurnIndex =
                          IF cti # NaN /\ index < cti THEN cti - 1
                          ELSE IF index = cti THEN cti % Max(1, Len(ps))
                          ELSE cti]

\* removePlayer without the adjustment of currentTurnIndex
removePlayer_NoAdjust(s, playerId) ==
    LET index == IndexOf(s.players, playerId) - 1
    IN IF index = -1 THEN s
       ELSE
        LET ps == RemoveAt(s.players, index + 1)
            s1 == [s EXCEPT !.players = ps,
                            !.hostId = IF s.hostId = playerId /\ Len(ps) > 0
                                          /\ playerId # Host
                                       THEN ps[1].id ELSE @]
        IN IF s1.state # "playing" THEN s1
           ELSE IF Len(getAlivePlayers(s1.players)) <= 1 THEN endGame(s1) ELSE s1

\* removePlayer without `if (index < this.currentTurnIndex) this.currentTurnIndex--`
removePlayer_NoShift(s, playerId) ==
    LET index == IndexOf(s.players, playerId) - 1
    IN IF index = -1 THEN s
       ELSE
        LET ps == RemoveAt(s.players, index + 1)
            s1 == [s EXCEPT !.players = ps,
                            !.hostId = IF s.hostId = playerId /\ Len(ps) > 0
                                          /\ playerId # Host
                                       THEN ps[1].id ELSE @]
        IN IF s1.state # "playing" THEN s1
           ELSE
            LET cti == s1.currentTurnIndex
                s2 == [s1 EXCEPT !.currentTurnIndex =
                          IF index = cti THEN cti % Max(1, Len(ps))
                          ELSE cti]
            IN IF Len(getAlivePlayers(s2.players)) <= 1 THEN endGame(s2) ELSE s2

removePlayer(s, playerId) ==
    LET index == IndexOf(s.players, playerId) - 1
    IN IF index = -1 THEN s
       ELSE
        LET ps == RemoveAt(s.players, index + 1)
            s1 == [s EXCEPT !.players = ps,
                            !.hostId = IF s.hostId = playerId /\ Len(ps) > 0
                                          /\ playerId # Host
                                       THEN ps[1].id ELSE @]
        IN IF s1.state # "playing" THEN s1
           ELSE
            LET cti == s1.currentTurnIndex
                s2 == [s1 EXCEPT !.currentTurnIndex =
                          IF cti # NaN /\ index < cti THEN cti - 1
                          ELSE IF index = cti THEN cti % Max(1, Len(ps))
                          ELSE cti]
            IN IF Len(getAlivePlayers(s2.players)) <= 1 THEN endGame(s2) ELSE s2

\* markDisconnected that also clears the ready flag
markDisconnected_Unready(s, playerId) ==
    LET i == IndexOf(s.players, playerId)
    IN IF i = 0 THEN s
       ELSE [s EXCEPT !.players[i].isConnected = FALSE, !.players[i].age = 0,
                      !.players[i].isReady = FALSE]

markDisconnected(s, playerId) ==
    LET i == IndexOf(s.players, playerId)
    IN IF i = 0 THEN s
       ELSE [s EXCEPT !.players[i].isConnected = FALSE, !.players[i].age = 0]

markConnected(s, playerId) ==
    LET i == IndexOf(s.players, playerId)
    IN IF i = 0 THEN s
       ELSE [s EXCEPT !.players[i].isConnected = TRUE, !.players[i].age = 0]

readyPlayers(ps) == SelectSeq(ps, LAMBDA p : p.isReady /\ p.isConnected)

\* startGame returns false (and changes nothing) with fewer than 2 ready players
CanStart(s) == Len(readyPlayers(s.players)) >= 2

startGame(s, syl) ==
    LET rp == readyPlayers(s.players)
        s1 == [s EXCEPT !.players = [i \in 1..Len(rp) |->
                             [rp[i] EXCEPT !.lives = s.settings.startLives, !.score = 0,
                                           !.wordsCompleted = 0,
                                           !.currentInput = << >>]],
                        !.state = "playing",
                        !.usedWords = {},
                        !.currentTurnIndex = 0]
    IN nextTurn(s1, syl)

\* submitWord without the usedWords check
SubmitResult_NoUsedCheck(s, playerId, word) ==
    IF s.state # "playing" THEN "Game not in progress"
    ELSE IF s.turnLocked THEN "Too late! Time ran out"
    ELSE IF ~HasCurrent(s) \/ Current(s).id # playerId THEN "Not your turn"
    ELSE IF Current(s).lives <= 0 THEN "You are eliminated"
    ELSE IF ~Current(s).isConnected THEN "Player disconnected"
    ELSE LET normalizedWord == toLowerCase(sanitizeText(word, MaxWordLen))
         IN IF Len(normalizedWord) < s.settings.minWordLength THEN "Word too short"
            ELSE IF ~validateWord(normalizedWord, s.currentSyllable)
                 THEN "Invalid word or doesn't contain syllable"
            ELSE "ok"

\* the return value of submitWord: "ok" or the reason of the rejection
SubmitResult(s, playerId, word) ==
    IF s.state # "playing" THEN "Game not in progress"
    ELSE IF s.turnLocked THEN "Too late! Time ran out"
    ELSE IF ~HasCurrent(s) \/ Current(s).id # playerId THEN "Not your turn"
    ELSE IF Current(s).lives <= 0 THEN "You are eliminated"
    ELSE IF ~Current(s).isConnected THEN "Player disconnected"
    ELSE LET normalizedWord == toLowerCase(sanitizeText(word, MaxWordLen))
         IN IF Len(normalizedWord) < s.settings.minWordLength THEN "Word too short"
            ELSE IF normalizedWord \in s.usedWords THEN "Word already used"
            ELSE IF ~validateWord(normalizedWord, s.currentSyllable)
                 THEN "Invalid word or doesn't contain syllable"
            ELSE "ok"

\* x || 0
OrZero(x) == IF x = Undefined THEN 0 ELSE x

\* Math.round(num / den) for num >= 0, den > 0: halves go up
Round(num, den) == (2 * num + den) \div (2 * den)

\* totalScore without the length bonus
totalScore_NoLengthBonus(wordLength, timerVal, turnTime) ==
    wordLength * 10 + Round(Max(0, timerVal) * 50, turnTime)

\* totalScore of submitWord: base, speed bonus and length bonus
totalScore(wordLength, timerVal, turnTime) ==
    LET timeRemaining == Max(0, timerVal)
        baseScore == wordLength * 10
        speedBonus == Round(timeRemaining * 50, turnTime)
        lengthBonus == Max(0, (wordLength - 5) * 5)
    IN baseScore + speedBonus + lengthBonus

\* the comparator of endGame's sort: negative when a goes before b
compare(a, b) ==
    IF b.score # a.score THEN OrZero(b.score) - OrZero(a.score)
    ELSE b.lives - a.lives

Orders(n) ==
    {q \in [1..n -> 1..n] : \A i, j \in 1..n : q[i] = q[j] => i = j}

\* the comparator is a consistent comparator for the seats of ps
Consistent(ps) ==
    \A i, j, k \in 1..Len(ps) :
       /\ compare(ps[i], ps[j]) = 0 /\ compare(ps[j], ps[k]) = 0
             => compare(ps[i], ps[k]) = 0
       /\ compare(ps[i], ps[j]) < 0 /\ compare(ps[j], ps[k]) < 0
             => compare(ps[i], ps[k]) < 0

\* q is the stable sort of ps
StableSorted(ps, q) ==
    \A i, j \in 1..Len(ps) :
       i < j => \/ compare(ps[q[i]], ps[q[j]]) < 0
                \/ compare(ps[q[i]], ps[q[j]]) = 0 /\ q[i] < q[j]

\* the rankings that [...this.players].sort(...).map(...) of endGame can give:
\* the stable sort when the comparator is consistent, any order otherwise
rankings(ps) ==
    { [k \in 1..Len(ps) |->
          [rank |-> k, id |-> ps[q[k]].id, score |-> OrZero(ps[q[k]].score),
           wordsCompleted |-> ps[q[k]].wordsCompleted, lives |-> ps[q[k]].lives]] :
      q \in {r \in Orders(Len(ps)) : Consistent(ps) => StableSorted(ps, r)} }

\* const winner = rankings[0]
winner(rk) == IF rk = << >> THEN Undefined ELSE rk[1]

\* submitWord with usedWords.add(normalizedWord) before the checks of the word
submitWord_RecordFirst(s, playerId, word) ==
    IF SubmitResult(s, playerId, word) \in
          {"Word too short", "Invalid word or doesn't contain syllable"}
    THEN [s EXCEPT !.usedWords = @ \cup {toLowerCase(sanitizeText(word, MaxWordLen))}]
    ELSE IF SubmitResult(s, playerId, word) # "ok" THEN s
    ELSE
     LET normalizedWord == toLowerCase(sanitizeText(word, MaxWordLen))
         i == s.currentTurnIndex + 1
         s1 == [s EXCEPT !.usedWords = @ \cup {normalizedWord}]
         s2 == clearInterval(s1, s1.timer)
         s3 == [s2 EXCEPT !.players[i].score =
                              OrZero(@) + totalScore(Len(normalizedWord), s.timerValue,
                                                     s.settings.turnTime),
                          !.players[i].wordsCompleted = @ + 1,
                          !.players[i].currentInput = << >>,
                          !.turnAccepts = Min(@ + 1, 2)]
     IN Schedule(s3, Item("advance", SubmitDelay, 0, playerId))

\* submitWord without usedWords.add(normalizedWord)
submitWord_NoRecord(s, playerId, word) ==
    IF SubmitResult(s, playerId, word) # "ok" THEN s
    ELSE
     LET normalizedWord == toLowerCase(sanitizeText(word, MaxWordLen))
         i == s.currentTurnIndex + 1
         s2 == clearInterval(s, s.timer)
         s3 == [s2 EXCEPT !.players[i].score =
                              OrZero(@) + totalScore(Len(normalizedWord), s.timerValue,
                                                     s.settings.turnTime),
                          !.players[i].wordsCompleted = @ + 1,
                          !.players[i].currentInput = << >>,
                          !.turnAccepts = Min(@ + 1, 2)]
     IN Schedule(s3, Item("advance", SubmitDelay, 0, playerId))

submitWord(s, playerId, word) ==
    IF SubmitResult(s, playerId, word) # "ok" THEN s
    ELSE
     LET normalizedWord == toLowerCase(sanitizeText(word, MaxWordLen))
         i == s.currentTurnIndex + 1
         s1 == [s EXCEPT !.usedWords = @ \cup {normalizedWord}]
         s2 == clearInterval(s1, s1.timer)
         s3 == [s2 EXCEPT !.players[i].score =
                              OrZero(@) + totalScore(Len(normalizedWord), s.timerValue,
                                                     s.settings.turnTime),
                          !.players[i].wordsCompleted = @ + 1,
                          !.players[i].currentInput = << >>,
                          !.turnAccepts = Min(@ + 1, 2)]
     IN Schedule(s3, Item("advance", SubmitDelay, 0, playerId))


\* -------------------------------------------------------------- Init
TheLobby == "lobby"
NoLobby == "none"

\* the connections of the guests, and the codes generateLobbyCode draws from
Guests == 1..NumGuests
Codes == 1..NumCodes
\* the code the constructor drew for the lobby of Host
FirstCode == 1
\* generatePlayerId() for the connection of guest g
GuestId(g) == 100 + g
\* uuidv4() of the constructor: the id of the n-th lobby made by guest g
LobbyId(g, n) == "lobby-" \o ToString(g) \o "-" \o ToString(n)

\* display names: the identities other than the host use the default name
NameOf(p) == IF p = Host THEN "host" ELSE "Guest"

\* l.players.find(p => p.id === l.hostId)?.name || 'Unknown'
hostName(s) == IF Seated(s.players, s.hostId) THEN NameOf(s.hostId) ELSE "Unknown"

\* socket.id: the k-th connection that the client of identity p opens
MaxClients == NumPlayers + 1
Socket(p, k) == (k - 1) * MaxClients + p
ClientOf(x) == ((x - 1) % MaxClients) + 1
Local(x) == ((x - 1) \div MaxClients) + 1
SetMax(S) == CHOOSE m \in S : \A x \in S : x <= m

\* Map.set, Map.delete and Map.get (0 = undefined) of socketToPlayer
MapSet(f, x, v) == [y \in DOMAIN f \cup {x} |-> IF y = x THEN v ELSE f[y]]
MapDelete(f, x) == [y \in DOMAIN f \ {x} |-> f[y]]
MapGet(f, x) == IF x \in DOMAIN f THEN f[x] ELSE 0

\* the two maps after player:auth / player:restore of the known identity pid
\* on socket x: the old socket's entry is deleted, both maps are set
authMaps_NoEvict(stp, pts, x, pid) ==
    [socketToPlayer |-> MapSet(stp, x, pid),
     playerToSocket |-> [pts EXCEPT ![pid] = x]]

authMaps(stp, pts, x, pid) ==
    LET oldSocketId == pts[pid]
        s1 == IF oldSocketId # 0 /\ oldSocketId # x THEN MapDelete(stp, oldSocketId)
              ELSE stp
    IN [socketToPlayer |-> MapSet(s1, x, pid),
        playerToSocket |-> [pts EXCEPT ![pid] = x]]

\* getLobbyList / the list of broadcastLobbyList: the lobbies of the registry
\* that are public (all are) and not finished.  The lobbies other than the
\* first are those of the guests: waiting, with the guest alone.
getLobbyList(registry, s, codes) ==
    {[id |-> TheLobby, code |-> codes[TheLobby], hostName |-> hostName(s),
      playerCount |-> Len(s.players), maxPlayers |-> s.settings.maxPlayers,
      state |-> s.state] : l \in {x \in registry : x = TheLobby /\ s.state # "finished"}}
    \cup
    {[id |-> l, code |-> codes[l], hostName |-> "Guest", playerCount |-> 1,
      maxPlayers |-> MaxPlayers, state |-> "waiting"] : l \in registry \ {TheLobby}}

\* lobby:create by Host (constructor, addPlayer, lobbies.set), then
\* lobby:join by the other identities in turn
InitRoom(n, ready, startLives, turnTime, maxPlayers, allowed) ==
    /\ lobbies = {TheLobby}
    /\ settings = [maxPlayers |-> maxPlayers, startLives |-> startLives,
                   turnTime |-> turnTime, minWordLength |-> MinWordLength]
    /\ players = [i \in 1..n |->
                    [id |-> i, lives |-> startLives, score |-> Undefined,
                     wordsCompleted |-> 0, isConnected |-> TRUE,
                     isReady |-> (i \in ready), age |-> 0,
                     currentInput |-> << >>]]
    /\ state = "waiting"
    /\ hostId = Host
    /\ currentTurnIndex = 0
    /\ currentSyllable = << >>
    /\ usedWords = {}
    /\ timer = 0
    /\ timerValue = 0
    /\ turnLocked = FALSE
    /\ pending = <<Item("afk", 0, 0, 0)>>
    /\ online = [p \in 1..n |-> TRUE]
    /\ currentLobbyId = [p \in 1..n |-> TheLobby]
    /\ playerToSocket = [p \in 1..n |-> Socket(p, 1)]
    /\ socketToPlayer = [x \in {Socket(p, 1) : p \in 1..n} |-> ClientOf(x)]
    /\ connected = {Socket(p, 1) : p \in 1..n}
    /\ budget = allowed
    /\ started = FALSE
    /\ turnTimeouts = 0
    /\ turnAccepts = 0
    /\ rateLimits = [e \in Events |-> << >>]
    /\ now = 0
    /\ history = << >>
    /\ lobbyCode = (TheLobby :> FirstCode)
    /\ guests = [g \in Guests |-> [currentLobbyId |-> NoLobby, made |-> 0]]
    /\ published = IF allowed.listing THEN getLobbyList(lobbies, Self, lobbyCode) ELSE {}

\* the same with room for 8 players
InitLobby(n, ready, startLives, turnTime, allowed) ==
    InitRoom(n, ready, startLives, turnTime, MaxPlayers, allowed)

\* the same with startLives 1, nobody or everybody ready
InitWith(n, ready, turnTime, allowed) ==
    InitLobby(n, IF ready THEN 1..n ELSE {}, StartLives, turnTime, allowed)

\* the disturbances a behaviour may hold: of each kind, and in all; scores
\* says whether the model follows the players' scores, words how many words
\* a game may have accepted for one more to be sent, listing whether the
\* model follows the published lobby:list
Allowance(leave, disconnect, restart, total) ==
    [leave |-> leave, disconnect |-> disconnect, restart |-> restart, total |-> total,
     scores |-> FALSE, words |-> Cardinality(WORDS), listing |-> FALSE]
Allows(kind) == budget[kind] > 0 /\ budget.total > 0
Spend(kind) == [budget EXCEPT ![kind] = @ - 1, !.total = @ - 1]

\* NumPlayers players have joined; any one disturbance
Init ==
    InitWith(NumPlayers, FALSE, TurnTime,
             Allowance(MaxDisturbances, MaxDisturbances, MaxDisturbances, MaxDisturbances))

\* the same after every player has sent game:ready, with a turn of 6 s;
\* one departure and one disconnect, no second game:start
InitReady ==
    InitWith(NumPlayers, TRUE, TurnTime + 2,
             Allowance(MaxDisturbances, MaxDisturbances, 0, MaxDisturbances + 1))

\* the same with one more player and a turn of 5 s; any one disturbance
InitFour ==
    InitWith(NumPlayers + 1, TRUE, TurnTime,
             Allowance(MaxDisturbances, MaxDisturbances, MaxDisturbances, MaxDisturbances))

\* players.has(p): the identities the server knows
Known == DOMAIN currentLobbyId

\* the handler found the caller's lobby: lobbies.get(player.currentLobbyId)
InLiveLobby(p) == currentLobbyId[p] = TheLobby /\ TheLobby \in lobbies

\* the handler or callback ends with broadcastLobbyList() when `called`.
\* Nothing in the server reads the published list: it is kept only where it
\* is followed (budget.listing).
Publish(called) ==
    published' = IF budget.listing /\ called
                 THEN getLobbyList(lobbies', Self', lobbyCode') ELSE published

\* ------------------------------------------------------- socket handlers
addPlayer(s, playerId) ==
    [s EXCEPT !.players = Append(@, Seat(s, playerId)),
              !.hostId = IF playerId = Host THEN playerId ELSE @]

\* lobby.players.find(p => p.name === player.name && !p.isConnected), 0 when absent
IndexByName(ps, p) ==
    IF \E i \in 1..Len(ps) : NameOf(ps[i].id) = NameOf(p) /\ ~ps[i].isConnected
    THEN CHOOSE i \in 1..Len(ps) :
            /\ NameOf(ps[i].id) = NameOf(p) /\ ~ps[i].isConnected
            /\ \A j \in 1..(i-1) : ~(NameOf(ps[j].id) = NameOf(p) /\ ~ps[j].isConnected)
    ELSE 0

LobbyJoin(p) ==
    /\ online[p]
    /\ TheLobby \in lobbies
    /\ LET byId == IndexOf(players, p)
           byName == IndexByName(players, p)
       IN IF state = "playing"
          THEN /\ byId # 0 \/ byName # 0
               /\ IF byId # 0
                  THEN Becomes([Self EXCEPT !.players[byId].isConnected = TRUE,
                                            !.players[byId].age = 0])
                  ELSE Becomes([Self EXCEPT !.players[byName].id = p,
                                            !.players[byName].isConnected = TRUE,
                                            !.players[byName].age = 0])
          ELSE /\ byId # 0 \/ Len(players) < settings.maxPlayers
               /\ IF byId # 0
                  THEN Becomes([Self EXCEPT !.players[byId].isConnected = TRUE])
                  ELSE Becomes(addPlayer(Self, p))
    /\ currentLobbyId' = [currentLobbyId EXCEPT ![p] = TheLobby]
    /\ UNCHANGED <<lobbies, online, playerToSocket, budget, started>>
    /\ UNCHANGED rateVars
    /\ UNCHANGED registryVars
    /\ Publish(TRUE)

\* lobby:leave -> handleLeaveLobby(socket, false)
\* lobby:leave without the destroy and delete of the lobby that is left empty
LobbyLeave_KeepEmpty(p) ==
    /\ online[p]
    /\ Allows("leave")
    /\ InLiveLobby(p)
    /\ Becomes(removePlayer(Self, p))
    /\ currentLobbyId' = [currentLobbyId EXCEPT ![p] = NoLobby]
    /\ budget' = Spend("leave")
    /\ UNCHANGED <<lobbies, online, playerToSocket, started>>
    /\ UNCHANGED rateVars
    /\ UNCHANGED registryVars
    /\ Publish(TRUE)

LobbyLeave(p) ==
    /\ online[p]
    /\ Allows("leave")
    /\ InLiveLobby(p)
    /\ LET s1 == removePlayer(Self, p)
       IN IF Len(s1.players) = 0
          THEN Becomes(destroy(s1)) /\ lobbies' = lobbies \ {TheLobby}
          ELSE Becomes(s1) /\ UNCHANGED lobbies
    /\ currentLobbyId' = [currentLobbyId EXCEPT ![p] = NoLobby]
    /\ budget' = Spend("leave")
    /\ UNCHANGED <<online, playerToSocket, started>>
    /\ UNCHANGED rateVars
    /\ UNCHANGED registryVars
    /\ Publish(TRUE)

\* an episode begins: the AFK checker next runs in `phase` units
StartEpisode(s, phase) ==
    IF Episode(s)
    THEN [s EXCEPT !.pending = [k \in 1..Len(@) |->
            IF @[k].kind = "afk" /\ @[k].aux = 0
            THEN [@[k] EXCEPT !.left = phase, !.aux = 1] ELSE @[k]]]
    ELSE s

\* disconnect -> handleLeaveLobby(socket, true), then the 5 min timer
Disconnect(p, phase) ==
    /\ online[p]
    /\ Allows("disconnect")
    /\ LET s1 == IF InLiveLobby(p)
                 THEN LET m == markDisconnected(Self, p)
                      IN IF m.state = "waiting"
                         THEN Schedule(m, Item("grace", 0, p, playerToSocket[p]))
                         ELSE StartEpisode(m, phase)
                 ELSE Self
       IN Becomes(Schedule(s1, Item("purge", 0, p, playerToSocket[p])))
    /\ online' = [online EXCEPT ![p] = FALSE]
    /\ connected' = connected \ {playerToSocket[p]}
    /\ budget' = Spend("disconnect")
    /\ UNCHANGED <<lobbies, currentLobbyId, playerToSocket, started>>
    /\ UNCHANGED rateVars
    /\ UNCHANGED <<lobbyCode, guests, socketToPlayer>>
    /\ UNCHANGED published

\* the number of a new connection of the client of p: the next one after
\* those that a map, a timer or the set of open sockets still holds
NewSocket(p) ==
    LET held == {playerToSocket[q] : q \in DOMAIN playerToSocket}
                  \cup DOMAIN socketToPlayer \cup connected
                  \cup {pending[k].aux : k \in {j \in 1..Len(pending) :
                                                pending[j].kind \in {"purge", "grace"}}}
        mine == {Local(x) : x \in {y \in held : y # 0 /\ ClientOf(y) = p}}
    IN Socket(p, 1 + Max(0, SetMax(mine \cup {0})))

\* player:auth with a known playerId on a new connection
PlayerAuth(p) ==
    /\ ~online[p]
    /\ online' = [online EXCEPT ![p] = TRUE]
    /\ LET m == authMaps(socketToPlayer, playerToSocket, NewSocket(p), p)
       IN /\ playerToSocket' = m.playerToSocket
          /\ socketToPlayer' = m.socketToPlayer
    /\ connected' = connected \cup {NewSocket(p)}
    /\ IF InLiveLobby(p) THEN Becomes(markConnected(Self, p)) ELSE UNCHANGED lobbyVars
    /\ UNCHANGED <<lobbies, currentLobbyId, budget, started>>
    /\ UNCHANGED rateVars
    /\ UNCHANGED <<lobbyCode, guests>>
    /\ UNCHANGED published

GameReady(p) ==
    /\ online[p]
    /\ InLiveLobby(p)
    /\ state = "waiting"
    /\ LET i == IndexOf(players, p)
       IN /\ i # 0
          /\ players[i].isConnected
          /\ Becomes([Self EXCEPT !.players[i].isReady = ~@])
    /\ UNCHANGED <<lobbies, online, currentLobbyId, playerToSocket, budget, started>>
    /\ UNCHANGED rateVars
    /\ UNCHANGED registryVars
    /\ UNCHANGED published

\* the game:start handler without the host check
gameStart_AnySender(p, syl) ==
    IF ~InLiveLobby(p) THEN Self
    ELSE IF Len(players) < 2 THEN Self
    ELSE IF ~CanStart(Self) THEN Self
    ELSE startGame(Self, syl)

\* the lobby after the game:start handler ran for a message of p: the lobby
\* as it is after each of the early returns, startGame's result otherwise
gameStart(p, syl) ==
    IF ~InLiveLobby(p) THEN Self
    ELSE IF hostId # p THEN Self
    ELSE IF Len(players) < 2 THEN Self
    ELSE IF ~CanStart(Self) THEN Self
    ELSE startGame(Self, syl)

GameStart(p, syl) ==
    /\ online[p]
    /\ started => Allows("restart")
    /\ gameStart(p, syl) # Self
    /\ Becomes(gameStart(p, syl))
    /\ started' = TRUE
    /\ budget' = IF started THEN Spend("restart") ELSE budget
    /\ UNCHANGED <<lobbies, online, currentLobbyId, playerToSocket>>
    /\ UNCHANGED rateVars
    /\ UNCHANGED registryVars
    /\ Publish(TRUE)

\* the payloads of game:submit: data.word is a string, or it is not
Payloads == [type : {"string", "other"}, word : RawWords \cup LongWords]
StringOf(word) == [type |-> "string", word |-> word]

\* what the handler did: the lobby after it, the events it emitted to the
\* room and the events it emitted to the sender
Outcome(s, room, reply) == [lobby |-> s, room |-> room, reply |-> reply]

\* the game:submit handler for the message data of p (not rate limited): the
\* early returns, then submitWord and the reply to a refusal
gameSubmit(p, data) ==
    IF data.type # "string" THEN Outcome(Self, << >>, << >>)
    ELSE IF ~InLiveLobby(p) THEN Outcome(Self, << >>, << >>)
    ELSE IF SubmitResult(Self, p, data.word) # "ok"
         THEN Outcome(submitWord(Self, p, data.word), << >>, <<"game:word-rejected">>)
         ELSE Outcome(submitWord(Self, p, data.word), <<"game:word-success">>, << >>)

\* texts a client may send with game:typing
Typed == { <<"a">>, <<"<", "x", ">", "a", "b">>, <<" ">> }
TypingPayloads == [type : {"string", "other"}, text : Typed]
TextOf(text) == [type |-> "string", text |-> text]

\* broadcastTyping: io.to(this.id).emit('game:typing', { playerId, text })
TypingEvent(playerId, text) == [event |-> "game:typing", playerId |-> playerId, text |-> text]

\* updateTyping without the check of isConnected
updateTyping_NoConnected(s, playerId, text) ==
    IF s.state # "playing" THEN Outcome(s, << >>, << >>)
    ELSE IF s.turnLocked THEN Outcome(s, << >>, << >>)
    ELSE IF ~HasCurrent(s) \/ Current(s).id # playerId THEN Outcome(s, << >>, << >>)
    ELSE IF Current(s).lives <= 0 THEN Outcome(s, << >>, << >>)
    ELSE LET sanitizedText == sanitizeText(text, MaxTypingLen)
         IN Outcome([s EXCEPT !.players[s.currentTurnIndex + 1].currentInput = sanitizedText],
                    <<TypingEvent(playerId, sanitizedText)>>, << >>)

\* Lobby.updateTyping: the lobby after it and what it emitted to the room
updateTyping(s, playerId, text) ==
    IF s.state # "playing" THEN Outcome(s, << >>, << >>)
    ELSE IF s.turnLocked THEN Outcome(s, << >>, << >>)
    ELSE IF ~HasCurrent(s) \/ Current(s).id # playerId THEN Outcome(s, << >>, << >>)
    ELSE IF Current(s).lives <= 0 THEN Outcome(s, << >>, << >>)
    ELSE IF ~Current(s).isConnected THEN Outcome(s, << >>, << >>)
    ELSE LET sanitizedText == sanitizeText(text, MaxTypingLen)
         IN Outcome([s EXCEPT !.players[s.currentTurnIndex + 1].currentInput = sanitizedText],
                    <<TypingEvent(playerId, sanitizedText)>>, << >>)

\* the game:typing handler for the message data of p (not rate limited): the
\* early returns, then updateTyping
gameTyping(p, data) ==
    IF data.type # "string" THEN Outcome(Self, << >>, << >>)
    ELSE IF ~InLiveLobby(p) THEN Outcome(Self, << >>, << >>)
    ELSE updateTyping(Self, p, data.text)

\* game:typing that changes the lobby
GameTyping(p, text) ==
    /\ online[p]
    /\ gameTyping(p, TextOf(text)).lobby # Self
    /\ Becomes(gameTyping(p, TextOf(text)).lobby)
    /\ UNCHANGED <<lobbies, online, currentLobbyId, playerToSocket, budget, started>>
    /\ UNCHANGED rateVars
    /\ UNCHANGED registryVars
    /\ UNCHANGED published

GameSubmit(p, word) ==
    /\ online[p]
    /\ Cardinality(usedWords) < budget.words
    /\ InLiveLobby(p)
    /\ SubmitResult(Self, p, word) = "ok"
    /\ Becomes(gameSubmit(p, StringOf(word)).lobby)
    /\ UNCHANGED <<lobbies, online, currentLobbyId, playerToSocket, budget, started>>
    /\ UNCHANGED rateVars
    /\ UNCHANGED registryVars
    /\ UNCHANGED published

\* --------------------------------------------------------- timer callbacks
\* pending[i] may run now: it is due, and no earlier timer of its kind is
Due(i) ==
    /\ pending[i].left = 0
    /\ \A j \in 1..(i - 1) : pending[j].kind = pending[i].kind => pending[j].left # 0

\* the 30 s or 5 min timer pending[i] may run now: the exact timers (all of
\* at most 30 s) that were set before it have run
LongDue(i) ==
    \A j \in 1..(i - 1) : pending[j].kind \notin ShortKinds /\ pending[j].kind # "grace"

Rearm(s, i, left) == [s EXCEPT !.pending[i].left = left]
Taken(s, i) == [s EXCEPT !.pending = RemoveAt(@, i)]

\* the callback of the turn interval set in nextTurn
TimerTick(i) ==
    /\ pending[i].kind = "tick"
    /\ timerValue <= 0
    /\ Becomes(handleTimeout(Self))
    /\ UNCHANGED <<lobbies, online, currentLobbyId, playerToSocket, budget, started>>
    /\ UNCHANGED rateVars
    /\ UNCHANGED registryVars
    /\ UNCHANGED published

\* no turn timer and no delayed turn callback is waiting
Quiescent == \A k \in 1..Len(pending) : pending[k].kind \in LongKinds

\* the callback of startAfkChecker; inactive: lastActivity is older than 10 min
AfkCheck(i, inactive) ==
    /\ pending[i].kind = "afk"
    /\ Due(i)
    /\ inactive <=> pending[i].aux = 0 /\ Quiescent
    /\ LET s0 == Rearm(Self, i, AfkPeriod)
           gone == inactive /\ (Len(players) = 0 \/ state = "waiting")
           s1 == IF gone THEN destroy(s0) ELSE s0
           forced == /\ s1.state = "playing"
                     /\ HasCurrent(s1)
                     /\ ~Current(s1).isConnected
                     /\ Current(s1).age > AfkThreshold
           s2 == IF forced THEN handleTimeout(s1) ELSE s1
       IN /\ gone \/ pending[i].aux = 1
          /\ Becomes(s2)
          /\ lobbies' = IF gone THEN lobbies \ {TheLobby} ELSE lobbies
    /\ UNCHANGED <<online, currentLobbyId, playerToSocket, budget, started>>
    /\ UNCHANGED rateVars
    /\ UNCHANGED registryVars
    /\ Publish(lobbies' # lobbies)

\* setTimeout of submitWord
AdvanceCb(i, syl) ==
    /\ pending[i].kind = "advance"
    /\ Due(i)
    /\ LET s1 == Taken(Self, i)
           s2 == [s1 EXCEPT !.currentTurnIndex = NextIndex(@, Len(s1.players))]
       IN Becomes(nextTurn(s2, syl))
    /\ UNCHANGED <<lobbies, online, currentLobbyId, playerToSocket, budget, started>>
    /\ UNCHANGED rateVars
    /\ UNCHANGED registryVars
    /\ UNCHANGED published

\* setTimeout of handleTimeout; pending[i].arg is alivePlayers.length
TimeoutCb(i, syl) ==
    /\ pending[i].kind = "timeout"
    /\ Due(i)
    /\ LET s1 == Taken(Self, i)
       IN IF pending[i].arg <= 1
          THEN Becomes(endGame(s1))
          ELSE Becomes(nextTurn([s1 EXCEPT !.currentTurnIndex =
                                     NextIndex(@, Len(s1.players))], syl))
    /\ UNCHANGED <<lobbies, online, currentLobbyId, playerToSocket, budget, started>>
    /\ UNCHANGED rateVars
    /\ UNCHANGED registryVars
    /\ UNCHANGED published

\* setTimeout of endGame
ResetCb(i) ==
    /\ pending[i].kind = "reset"
    /\ Due(i)
    /\ LET s1 == Taken(Self, i)
       IN Becomes([s1 EXCEPT !.state = "waiting",
                             !.players = [k \in 1..Len(s1.players) |->
                                 [s1.players[k] EXCEPT !.isReady = FALSE,
                                                       !.lives = s1.settings.startLives,
                                                       !.score = 0,
                                                       !.wordsCompleted = 0]]])
    /\ UNCHANGED <<lobbies, online, currentLobbyId, playerToSocket, budget, started>>
    /\ UNCHANGED rateVars
    /\ UNCHANGED registryVars
    /\ Publish(TRUE)

\* setTimeout of handleLeaveLobby (30 s); pending[i].arg is the playerId,
\* aux the socket whose disconnect set the timer
GraceCb(i) ==
    /\ pending[i].kind = "grace"
    /\ \A j \in 1..(i - 1) : pending[j].kind \notin ShortKinds
    /\ LET s1 == Taken(Self, i)
           pid == pending[i].arg
           k == IndexOf(players, pid)
       IN IF k # 0 /\ ~players[k].isConnected
          THEN LET s2 == removePlayer(s1, pid)
               IN /\ currentLobbyId' = [currentLobbyId EXCEPT ![pid] = NoLobby]
                  /\ IF Len(s2.players) = 0
                     THEN Becomes(destroy(s2)) /\ lobbies' = lobbies \ {TheLobby}
                     ELSE Becomes(s2) /\ UNCHANGED lobbies
          ELSE Becomes(s1) /\ UNCHANGED <<lobbies, currentLobbyId>>
    /\ UNCHANGED <<online, playerToSocket, budget, started>>
    /\ UNCHANGED rateVars
    /\ UNCHANGED registryVars
    /\ Publish(LET k == IndexOf(players, pending[i].arg)
               IN k # 0 /\ ~players[k].isConnected)

\* setTimeout of the disconnect handler (5 min); arg playerId, aux socket
PurgeCb(i) ==
    /\ pending[i].kind = "purge"
    /\ LongDue(i)
    /\ LET s1 == Taken(Self, i)
           pid == pending[i].arg
       IN IF playerToSocket[pid] = pending[i].aux
          THEN /\ playerToSocket' = [playerToSocket EXCEPT ![pid] = 0]
               /\ socketToPlayer' = MapDelete(socketToPlayer, pending[i].aux)
               /\ IF InLiveLobby(pid) /\ state = "waiting"
                  THEN LET s2 == removePlayer(s1, pid)
                       IN IF Len(s2.players) = 0
                          THEN Becomes(destroy(s2)) /\ lobbies' = lobbies \ {TheLobby}
                          ELSE Becomes(s2) /\ UNCHANGED lobbies
                  ELSE Becomes(s1) /\ UNCHANGED lobbies
          ELSE Becomes(s1) /\ UNCHANGED <<lobbies, playerToSocket, socketToPlayer>>
    /\ UNCHANGED <<online, currentLobbyId, budget, started>>
    /\ UNCHANGED rateVars
    /\ UNCHANGED <<lobbyCode, guests, connected>>
    /\ Publish(/\ playerToSocket[pending[i].arg] = pending[i].aux
               /\ InLiveLobby(pending[i].arg) /\ state = "waiting")

\* one unit of time passes; no short timer is overdue
Tick ==
    /\ \A k \in 1..Len(pending) :
          /\ pending[k].kind = "tick" => timerValue > 0
          /\ (pending[k].kind \in ShortKinds \ {"tick"}
                 \/ (pending[k].kind = "afk" /\ pending[k].aux = 1))
             => pending[k].left > 0
    /\ timerValue' = timerValue - Cardinality(LiveTimers(pending))
    /\ pending' = [k \in 1..Len(pending) |->
                      [pending[k] EXCEPT !.left = Max(@ - 1, 0)]]
    /\ players' = [k \in 1..Len(players) |->
                      IF players[k].isConnected \/ ~Episode(Self) THEN players[k]
                      ELSE [players[k] EXCEPT !.age = Min(@ + 1, AfkThreshold + 1)]]
    /\ UNCHANGED <<lobbies, state, hostId, settings, currentTurnIndex, currentSyllable,
                   usedWords, timer, turnLocked, online,
                   currentLobbyId, playerToSocket, budget, started,
                   turnTimeouts, turnAccepts>>
    /\ UNCHANGED rateVars
    /\ UNCHANGED registryVars
    /\ UNCHANGED published

\* ------------------------------------------------------------ rate limiter
\* a handler calls isRateLimited(socket.id, event, maxRequests, windowMs); one
\* event per behaviour, a bounded number of calls
isRateLimited(event) ==
    /\ history # << >> => history[1].event = event
    /\ Len(history) < maxRequests(event) + ExtraCalls
    /\ LET timestamps == DropOld(rateLimits[event], now - windowMs(event))
           limited == Len(timestamps) >= maxRequests(event)
       IN /\ rateLimits' = [rateLimits EXCEPT ![event] =
                               IF limited THEN timestamps ELSE Append(timestamps, now)]
          /\ history' = Append(history, [event |-> event, at |-> now, limited |-> limited])
    /\ UNCHANGED now
    /\ UNCHANGED <<lobbies, lobbyVars, online, currentLobbyId, playerToSocket, budget, started>>
    /\ UNCHANGED registryVars
    /\ UNCHANGED published

\* the sweep (setInterval, 30 s): old timestamps and empty entries go
RateSweep ==
    /\ rateLimits' = [e \in Events |-> DropOld(rateLimits[e], now - SweepAge)]
    /\ UNCHANGED <<now, history>>
    /\ UNCHANGED <<lobbies, lobbyVars, online, currentLobbyId, playerToSocket, budget, started>>
    /\ UNCHANGED registryVars
    /\ UNCHANGED published

\* Date.now() grows by one unit
RateTick ==
    /\ history # << >>
    /\ now < history[1].at + windowMs(history[1].event) + ExtraTime
    /\ now' = now + 1
    /\ UNCHANGED <<rateLimits, history>>
    /\ UNCHANGED <<lobbies, lobbyVars, online, currentLobbyId, playerToSocket, budget, started>>
    /\ UNCHANGED registryVars
    /\ UNCHANGED published

Next ==
    \/ \E p \in Known : LobbyJoin(p)
    \/ \E p \in Known : LobbyLeave(p)
    \/ \E p \in Known, phase \in AfkPhases : Disconnect(p, phase)
    \/ \E p \in Known : PlayerAuth(p)
    \/ \E p \in Known : GameReady(p)
    \/ \E p \in Known, syl \in SYLLABLES : GameStart(p, syl)
    \/ \E p \in Known, w \in RawWords : GameSubmit(p, w)
    \/ \E i \in 1..Len(pending) : TimerTick(i)
    \/ \E i \in 1..Len(pending), inactive \in BOOLEAN : AfkCheck(i, inactive)
    \/ \E i \in 1..Len(pending), syl \in SYLLABLES : AdvanceCb(i, syl)
    \/ \E i \in 1..Len(pending), syl \in SYLLABLES : TimeoutCb(i, syl)
    \/ \E i \in 1..Len(pending) : ResetCb(i)
    \/ \E i \in 1..Len(pending) : GraceCb(i)
    \/ \E i \in 1..Len(pending) : PurgeCb(i)
    \/ Tick

Spec == Init /\ [][Next]_vars

\* a game and the events during it: nobody joins or reconnects, and the
\* 30 s and 5 min timers do not run yet
NextGame ==
    \/ \E p \in Known : LobbyLeave(p)
    \/ \E p \in Known, phase \in AfkPhases : Disconnect(p, phase)
    \/ \E p \in Known, syl \in SYLLABLES : GameStart(p, syl)
    \/ \E p \in Known, w \in RawWords : GameSubmit(p, w)
    \/ \E i \in 1..Len(pending) : TimerTick(i)
    \/ \E i \in 1..Len(pending), inactive \in BOOLEAN : AfkCheck(i, inactive)
    \/ \E i \in 1..Len(pending), syl \in SYLLABLES : AdvanceCb(i, syl)
    \/ \E i \in 1..Len(pending), syl \in SYLLABLES : TimeoutCb(i, syl)
    \/ \E i \in 1..Len(pending) : ResetCb(i)
    \/ Tick

\* games of NumPlayers players, a departure and a disconnect
SpecGame == InitReady /\ [][NextGame]_vars

\* games of NumPlayers + 1 players
SpecFour == InitFour /\ [][NextGame]_vars

\* a lobby of two whose players' connections drop and come back: two
\* disconnect notifications, no lobby:leave, one game
InitGrace ==
    InitWith(NumPlayers - 1, FALSE, TurnTime,
             Allowance(0, MaxDisturbances + 1, 0, MaxDisturbances + 1))

NextGrace ==
    \/ \E p \in Known : LobbyJoin(p)
    \/ \E p \in Known, phase \in AfkPhases : Disconnect(p, phase)
    \/ \E p \in Known : PlayerAuth(p)
    \/ \E p \in Known : GameReady(p)
    \/ \E p \in Known, syl \in SYLLABLES : GameStart(p, syl)
    \/ \E p \in Known, w \in RawWords : GameSubmit(p, w)
    \/ \E i \in 1..Len(pending) : TimerTick(i)
    \/ \E i \in 1..Len(pending), inactive \in BOOLEAN : AfkCheck(i, inactive)
    \/ \E i \in 1..Len(pending), syl \in SYLLABLES : AdvanceCb(i, syl)
    \/ \E i \in 1..Len(pending), syl \in SYLLABLES : TimeoutCb(i, syl)
    \/ \E i \in 1..Len(pending) : ResetCb(i)
    \/ \E i \in 1..Len(pending) : GraceCb(i)
    \/ \E i \in 1..Len(pending) : PurgeCb(i)
    \/ Tick

SpecGrace == InitGrace /\ [][NextGrace]_vars

\* the rate limiter of one connection, the lobby at rest
NextRate ==
    \/ \E event \in Events : isRateLimited(event)
    \/ RateSweep
    \/ RateTick

SpecRate == Init /\ [][NextRate]_vars

\* a game whose scores are followed: startLives 2, players 1 and 2 ready, the
\* third in the lobby but not ready; one lobby:leave, one game
InitScore ==
    InitLobby(NumPlayers, {1, 2}, StartLives + 1, TurnTime,
              [Allowance(MaxDisturbances, 0, 0, MaxDisturbances)
                  EXCEPT !.scores = TRUE, !.words = MaxScored])

NextScore ==
    \/ \E p \in Known : LobbyJoin(p)
    \/ \E p \in Known : LobbyLeave(p)
    \/ \E p \in Known, syl \in SYLLABLES : GameStart(p, syl)
    \/ \E p \in Known, w \in RawWords : GameSubmit(p, w)
    \/ \E p \in Known, w \in LongWords : GameSubmit(p, w)
    \/ \E i \in 1..Len(pending) : TimerTick(i)
    \/ \E i \in 1..Len(pending), syl \in SYLLABLES : AdvanceCb(i, syl)
    \/ \E i \in 1..Len(pending), syl \in SYLLABLES : TimeoutCb(i, syl)
    \/ \E i \in 1..Len(pending) : ResetCb(i)
    \/ Tick

SpecScore == InitScore /\ [][NextScore]_vars

\* the integers a client sends in the fields of lobby:settings: negative, 0
\* (as falsy as a field that is absent), below, inside and above the ranges
Requests == {-1, 0, 1, 3, 7, 40}
SettingsFields == {"maxPlayers", "startLives", "turnTime", "minWordLength"}
\* the messages explored: one field set, or all fields set to the same value
SettingsRequests ==
    {r \in [SettingsFields -> Requests] :
        \/ Cardinality({f \in SettingsFields : r[f] # 0}) <= 1
        \/ \A f, g \in SettingsFields : r[f] = r[g]}

\* Math.min(hi, Math.max(lo, v))
Clamp(lo, hi, v) == Min(hi, Max(lo, v))
\* the same without Math.max
Clamp_NoLower(lo, hi, v) == Min(hi, v)

\* seconds of settings.turnTime in units of the model
ToUnits(seconds) == 2 * seconds

\* the lobby:settings handler without the lower bounds
lobbySettings_NoLower(p, r) ==
    IF ~InLiveLobby(p) THEN Self
    ELSE IF hostId # p THEN Self
    ELSE [Self EXCEPT
            !.settings.maxPlayers = IF r.maxPlayers # 0
                                    THEN Clamp_NoLower(2, 12, r.maxPlayers) ELSE @,
            !.settings.startLives = IF r.startLives # 0
                                    THEN Clamp_NoLower(1, 5, r.startLives) ELSE @,
            !.settings.turnTime = IF r.turnTime # 0
                                  THEN ToUnits(Clamp_NoLower(5, 30, r.turnTime)) ELSE @,
            !.settings.minWordLength = IF r.minWordLength # 0
                                       THEN Clamp_NoLower(2, 5, r.minWordLength) ELSE @]

\* the lobby after the lobby:settings handler ran for the message r of p
lobbySettings(p, r) ==
    IF ~InLiveLobby(p) THEN Self
    ELSE IF hostId # p THEN Self
    ELSE [Self EXCEPT
            !.settings.maxPlayers = IF r.maxPlayers # 0
                                    THEN Clamp(2, 12, r.maxPlayers) ELSE @,
            !.settings.startLives = IF r.startLives # 0
                                    THEN Clamp(1, 5, r.startLives) ELSE @,
            !.settings.turnTime = IF r.turnTime # 0
                                  THEN ToUnits(Clamp(5, 30, r.turnTime)) ELSE @,
            !.settings.minWordLength = IF r.minWordLength # 0
                                       THEN Clamp(2, 5, r.minWordLength) ELSE @]

LobbySettings(p, r) ==
    /\ online[p]
    /\ InLiveLobby(p)
    /\ hostId = p
    /\ Becomes(lobbySettings(p, r))
    /\ UNCHANGED <<lobbies, online, currentLobbyId, playerToSocket, budget, started>>
    /\ UNCHANGED rateVars
    /\ UNCHANGED registryVars
    /\ Publish(TRUE)

\* a waiting lobby whose host changes the settings while players leave, join
\* and get ready
NextSettings ==
    \/ \E p \in Known, r \in SettingsRequests : LobbySettings(p, r)
    \/ \E p \in Known : LobbyJoin(p)
    \/ \E p \in Known : LobbyLeave(p)
    \/ \E p \in Known : GameReady(p)

SpecSettings == Init /\ [][NextSettings]_vars

\* the lobby:settings messages that set turnTime alone
TurnTimeRequests ==
    {r \in SettingsRequests : \A f \in SettingsFields \ {"turnTime"} : r[f] = 0}

\* games of two ready players whose host sends lobby:settings with a
\* turnTime before and during the game
InitBonus ==
    InitLobby(NumPlayers - 1, 1..(NumPlayers - 1), StartLives, TurnTime,
              [Allowance(0, 0, 0, 0) EXCEPT !.words = MaxScored])

NextBonus ==
    \/ \E p \in Known, r \in TurnTimeRequests : LobbySettings(p, r)
    \/ \E p \in Known, syl \in SYLLABLES : GameStart(p, syl)
    \/ \E p \in Known, w \in RawWords : GameSubmit(p, w)
    \/ \E i \in 1..Len(pending) : TimerTick(i)
    \/ \E i \in 1..Len(pending), syl \in SYLLABLES : AdvanceCb(i, syl)
    \/ \E i \in 1..Len(pending), syl \in SYLLABLES : TimeoutCb(i, syl)
    \/ \E i \in 1..Len(pending) : ResetCb(i)
    \/ Tick

SpecBonus == InitBonus /\ [][NextBonus]_vars

\* lobby:create on the connection of guest g, whose constructor draws `code`:
\* the guest's player is made if there is none, the lobby the guest is in (its
\* own, with nobody else) is left, destroyed and deleted, the new lobby is
\* constructed, seats the guest and is registered.  A guest makes fewer
\* lobbies than the rate limit refuses.
LobbyCreate(g, code) ==
    /\ guests[g].made < MaxCreates
    /\ LET id == LobbyId(g, guests[g].made + 1)
           old == guests[g].currentLobbyId
           s1 == removePlayer(Self, GuestId(g))
       IN /\ IF old = TheLobby /\ TheLobby \in lobbies
             THEN IF Len(s1.players) = 0
                  THEN Becomes(destroy(s1)) /\ lobbies' = (lobbies \ {TheLobby}) \cup {id}
                  ELSE Becomes(s1) /\ lobbies' = lobbies \cup {id}
             ELSE /\ lobbies' = (lobbies \ {old}) \cup {id}
                  /\ UNCHANGED lobbyVars
          /\ lobbyCode' = lobbyCode @@ (id :> code)
          /\ guests' = [guests EXCEPT ![g] = [currentLobbyId |-> id, made |-> @.made + 1]]
          /\ UNCHANGED socketVars
    /\ UNCHANGED <<online, currentLobbyId, playerToSocket, budget, started>>
    /\ UNCHANGED rateVars
    /\ Publish(TRUE)

\* what lobby:join did: the first lobby after it, the registry, the guest's
\* player and the event emitted to the guest
JoinOutcome(s, registry, guest, reply) ==
    [lobby |-> s, lobbies |-> registry, guest |-> guest, reply |-> reply]

\* the lobby:join handler for guest g and a code (not rate limited).  The
\* first lobby is the oldest of the registry: find returns it when it is live
\* and has the code.  The lobby the guest is in, if it is another one, is its
\* own (nobody else is in it): leaving it empties, destroys and deletes it.
guestJoin(g, code) ==
    LET me == guests[g]
        pid == GuestId(g)
        lobbyFound == TheLobby \in lobbies /\ lobbyCode[TheLobby] = code
        left == IF me.currentLobbyId \notin {NoLobby, TheLobby}
                THEN lobbies \ {me.currentLobbyId} ELSE lobbies
        here == [me EXCEPT !.currentLobbyId = TheLobby]
        byId == IndexOf(players, pid)
        byName == IndexByName(players, pid)
    IN IF ~lobbyFound THEN JoinOutcome(Self, lobbies, me, "Lobby not found")
       ELSE IF state = "playing"
       THEN IF byId # 0
            THEN JoinOutcome([Self EXCEPT !.players[byId].isConnected = TRUE,
                                          !.players[byId].age = 0],
                             left, here, "lobby:joined")
            ELSE IF byName # 0
            THEN JoinOutcome([Self EXCEPT !.players[byName].id = pid,
                                          !.players[byName].isConnected = TRUE,
                                          !.players[byName].age = 0],
                             left, here, "lobby:joined")
            ELSE JoinOutcome(Self, left, me, "Game in progress - cannot join")
       ELSE IF byId # 0
            THEN JoinOutcome([Self EXCEPT !.players[byId].isConnected = TRUE],
                             left, here, "lobby:joined")
            ELSE IF Len(players) >= settings.maxPlayers
            THEN JoinOutcome(Self, left, me, "Cannot join lobby (full?)")
            ELSE JoinOutcome(addPlayer(Self, pid), left, here, "lobby:joined")

\* the code is the first lobby's, or no live lobby's
Joinable(code) ==
    \/ TheLobby \in lobbies /\ lobbyCode[TheLobby] = code
    \/ \A l \in lobbies : lobbyCode[l] # code

GuestJoin(g, code) ==
    /\ Joinable(code)
    /\ \E r \in {guestJoin(g, code)} :
          /\ \/ r.lobby # Self \/ r.lobbies # lobbies \/ r.guest # guests[g]
             \/ r.reply = "lobby:joined"
          /\ Becomes(r.lobby)
          /\ lobbies' = r.lobbies
          /\ guests' = [guests EXCEPT ![g] = r.guest]
          /\ UNCHANGED socketVars
    /\ UNCHANGED <<lobbyCode, online, currentLobbyId, playerToSocket, budget, started>>
    /\ UNCHANGED rateVars
    /\ Publish(guestJoin(g, code).reply = "lobby:joined")

\* a lobby with one free seat: guests create lobbies and join the first one
\* while its players get ready, start a game, leave and join
InitJoin ==
    InitRoom(NumPlayers, {}, StartLives, TurnTime, NumPlayers + 1,
             Allowance(MaxDisturbances, 0, 0, MaxDisturbances))

NextJoin ==
    \/ \E g \in Guests, code \in Codes : LobbyCreate(g, code)
    \/ \E g \in Guests, code \in Codes : GuestJoin(g, code)
    \/ \E p \in Known : LobbyJoin(p)
    \/ \E p \in Known : LobbyLeave(p)
    \/ \E p \in Known : GameReady(p)
    \/ \E p \in Known, syl \in SYLLABLES : GameStart(p, syl)

SpecJoin == InitJoin /\ [][NextJoin]_vars

\* the registry: guests create lobbies while the players of the first lobby
\* leave and join it
NextRegistry ==
    \/ \E g \in Guests, code \in Codes : LobbyCreate(g, code)
    \/ \E p \in Known : LobbyJoin(p)
    \/ \E p \in Known : LobbyLeave(p)
    \/ \E p \in Known : GameReady(p)

SpecRegistry == Init /\ [][NextRegistry]_vars

\* games whose published lobby:list is followed: everybody ready, one
\* lobby:leave
InitListing ==
    InitLobby(NumPlayers, 1..NumPlayers, StartLives, TurnTime,
              [Allowance(MaxDisturbances, 0, 0, MaxDisturbances) EXCEPT !.listing = TRUE])

NextListing ==
    \/ \E p \in Known : LobbyJoin(p)
    \/ \E p \in Known : LobbyLeave(p)
    \/ \E p \in Known : GameReady(p)
    \/ \E p \in Known, syl \in SYLLABLES : GameStart(p, syl)
    \/ \E p \in Known, w \in RawWords : GameSubmit(p, w)
    \/ \E i \in 1..Len(pending) : TimerTick(i)
    \/ \E i \in 1..Len(pending), syl \in SYLLABLES : AdvanceCb(i, syl)
    \/ \E i \in 1..Len(pending), syl \in SYLLABLES : TimeoutCb(i, syl)
    \/ \E i \in 1..Len(pending) : ResetCb(i)
    \/ Tick

SpecListing == InitListing /\ [][NextListing]_vars

\* the event loop runs the callbacks that are due, and time passes
Fairness ==
    /\ WF_vars(Tick)
    /\ WF_vars(\E i \in 1..Len(pending) : TimerTick(i))
    /\ WF_vars(\E i \in 1..Len(pending), inactive \in BOOLEAN : AfkCheck(i, inactive))
    /\ WF_vars(\E i \in 1..Len(pending), syl \in SYLLABLES : AdvanceCb(i, syl))
    /\ WF_vars(\E i \in 1..Len(pending), syl \in SYLLABLES : TimeoutCb(i, syl))
    /\ WF_vars(\E i \in 1..Len(pending) : ResetCb(i))

\* games of two ready players with one more life each, in which connections
\* drop and come back
InitStall ==
    InitLobby(NumPlayers - 1, 1..(NumPlayers - 1), StartLives + 1, TurnTime,
              [Allowance(0, MaxDisturbances, 0, MaxDisturbances) EXCEPT !.words = MaxScored + 1])

NextStall ==
    \/ \E p \in Known, phase \in AfkPhases : Disconnect(p, phase)
    \/ \E p \in Known : PlayerAuth(p)
    \/ \E p \in Known, syl \in SYLLABLES : GameStart(p, syl)
    \/ \E p \in Known, w \in RawWords : GameSubmit(p, w)
    \/ \E i \in 1..Len(pending) : TimerTick(i)
    \/ \E i \in 1..Len(pending), inactive \in BOOLEAN : AfkCheck(i, inactive)
    \/ \E i \in 1..Len(pending), syl \in SYLLABLES : AdvanceCb(i, syl)
    \/ \E i \in 1..Len(pending), syl \in SYLLABLES : TimeoutCb(i, syl)
    \/ \E i \in 1..Len(pending) : ResetCb(i)
    \/ Tick

SpecStall == InitStall /\ [][NextStall]_vars /\ Fairness

\* games of two ready players that end and are followed to the reset: a
\* player may leave, the host may send game:start again; the scores and the
\* published listing are followed
InitReset ==
    InitLobby(NumPlayers - 1, 1..(NumPlayers - 1), StartLives, TurnTime,
              [Allowance(1, 0, 1, MaxDisturbances)
                  EXCEPT !.scores = TRUE, !.listing = TRUE, !.words = MaxScored])

NextReset ==
    \/ \E p \in Known : LobbyLeave(p)
    \/ \E p \in Known : GameReady(p)
    \/ \E p \in Known, syl \in SYLLABLES : GameStart(p, syl)
    \/ \E p \in Known, w \in RawWords : GameSubmit(p, w)
    \/ \E i \in 1..Len(pending) : TimerTick(i)
    \/ \E i \in 1..Len(pending), syl \in SYLLABLES : AdvanceCb(i, syl)
    \/ \E i \in 1..Len(pending), syl \in SYLLABLES : TimeoutCb(i, syl)
    \/ \E i \in 1..Len(pending) : ResetCb(i)
    \/ Tick

SpecReset == InitReset /\ [][NextReset]_vars /\ Fairness

\* games of two ready players who type and submit, in which connections
\* drop and come back
InitTyping ==
    InitLobby(NumPlayers - 1, 1..(NumPlayers - 1), StartLives, TurnTime,
              [Allowance(0, MaxDisturbances, 0, MaxDisturbances) EXCEPT !.words = MaxScored])

NextTyping ==
    \/ \E p \in Known, phase \in AfkPhases : Disconnect(p, phase)
    \/ \E p \in Known : PlayerAuth(p)
    \/ \E p \in Known, syl \in SYLLABLES : GameStart(p, syl)
    \/ \E p \in Known, w \in RawWords : GameSubmit(p, w)
    \/ \E p \in Known, text \in Typed : GameTyping(p, text)
    \/ \E i \in 1..Len(pending) : TimerTick(i)
    \/ \E i \in 1..Len(pending), inactive \in BOOLEAN : AfkCheck(i, inactive)
    \/ \E i \in 1..Len(pending), syl \in SYLLABLES : AdvanceCb(i, syl)
    \/ \E i \in 1..Len(pending), syl \in SYLLABLES : TimeoutCb(i, syl)
    \/ \E i \in 1..Len(pending) : ResetCb(i)
    \/ Tick

SpecTyping == InitTyping /\ [][NextTyping]_vars

\* one game of NumPlayers ready players, played to its end: the players
\* submit and type, one may leave or lose the connection and come back; no
\* second game:start
InitEnd ==
    InitLobby(NumPlayers, 1..NumPlayers, StartLives, TurnTime,
              [Allowance(MaxDisturbances, MaxDisturbances, 0, MaxDisturbances)
                  EXCEPT !.words = MaxScored])

NextEnd ==
    \/ \E p \in Known : LobbyLeave(p)
    \/ \E p \in Known, phase \in AfkPhases : Disconnect(p, phase)
    \/ \E p \in Known : PlayerAuth(p)
    \/ \E p \in Known, syl \in SYLLABLES : GameStart(p, syl)
    \/ \E p \in Known, w \in RawWords : GameSubmit(p, w)
    \/ \E p \in Known, text \in Typed : GameTyping(p, text)
    \/ \E i \in 1..Len(pending) : TimerTick(i)
    \/ \E i \in 1..Len(pending), inactive \in BOOLEAN : AfkCheck(i, inactive)
    \/ \E i \in 1..Len(pending), syl \in SYLLABLES : AdvanceCb(i, syl)
    \/ \E i \in 1..Len(pending), syl \in SYLLABLES : TimeoutCb(i, syl)
    \/ \E i \in 1..Len(pending) : ResetCb(i)
    \/ Tick

SpecEnd == InitEnd /\ [][NextEnd]_vars /\ Fairness

\* a waiting lobby of two identities that empties: its players leave, lose
\* their connections and come back, guests join it and move on to lobbies of
\* their own
InitEmpty ==
    InitRoom(NumPlayers - 1, {}, StartLives, TurnTime, NumPlayers,
             Allowance(NumPlayers - 1, MaxDisturbances, 0, NumPlayers - 1))

NextEmpty ==
    \/ \E g \in Guests, code \in Codes : LobbyCreate(g, code)
    \/ \E g \in Guests, code \in Codes : GuestJoin(g, code)
    \/ \E p \in Known : LobbyJoin(p)
    \/ \E p \in Known : LobbyLeave(p)
    \/ \E p \in Known, phase \in AfkPhases : Disconnect(p, phase)
    \/ \E p \in Known : PlayerAuth(p)
    \/ \E i \in 1..Len(pending) : GraceCb(i)
    \/ \E i \in 1..Len(pending) : PurgeCb(i)

SpecEmpty == InitEmpty /\ [][NextEmpty]_vars

\* ------------------------------------------------- connections one by one
\* identity p has an open socket that socketToPlayer maps to it
OnlineOf(stp, conn) ==
    [p \in DOMAIN online |-> \E x \in conn : MapGet(stp, x) = p]

\* io.on('connection'): the client of p opens one more socket
Connect(p) ==
    /\ Local(NewSocket(p)) <= MaxSockets
    /\ connected' = connected \cup {NewSocket(p)}
    /\ UNCHANGED <<lobbies, lobbyVars, online, currentLobbyId, playerToSocket, budget,
                   started, socketToPlayer, lobbyCode, guests, published>>
    /\ UNCHANGED rateVars

\* player:auth with the known playerId pid on the open socket x
SocketAuth(x, pid) ==
    /\ x \in connected
    /\ LET m == authMaps(socketToPlayer, playerToSocket, x, pid)
       IN /\ playerToSocket' = m.playerToSocket
          /\ socketToPlayer' = m.socketToPlayer
          /\ online' = OnlineOf(m.socketToPlayer, connected)
    /\ IF InLiveLobby(pid) THEN Becomes(markConnected(Self, pid)) ELSE UNCHANGED lobbyVars
    /\ UNCHANGED <<lobbies, currentLobbyId, budget, started, connected,
                   lobbyCode, guests, published>>
    /\ UNCHANGED rateVars

\* player:restore with the known playerId pid and a lobbyId on the open socket x
PlayerRestore(x, pid, lobbyId) ==
    /\ x \in connected
    /\ LET m == authMaps(socketToPlayer, playerToSocket, x, pid)
       IN /\ playerToSocket' = m.playerToSocket
          /\ socketToPlayer' = m.socketToPlayer
          /\ online' = OnlineOf(m.socketToPlayer, connected)
    /\ IF lobbyId \in lobbies /\ Seated(players, pid)
       THEN /\ currentLobbyId' = [currentLobbyId EXCEPT ![pid] = lobbyId]
            /\ Becomes(markConnected(Self, pid))
       ELSE UNCHANGED <<currentLobbyId, lobbyVars>>
    /\ UNCHANGED <<lobbies, budget, started, connected, lobbyCode, guests, published>>
    /\ UNCHANGED rateVars

\* disconnect of the open socket x -> handleLeaveLobby(socket, true), then the
\* 5 min timer if socketToPlayer knows the socket
SocketDisconnect(x, phase) ==
    /\ x \in connected
    /\ connected' = connected \ {x}
    /\ online' = OnlineOf(socketToPlayer, connected \ {x})
    /\ LET playerId == MapGet(socketToPlayer, x)
       IN IF playerId = 0 THEN UNCHANGED lobbyVars
          ELSE LET s1 == IF InLiveLobby(playerId)
                         THEN LET m == markDisconnected(Self, playerId)
                              IN IF m.state = "waiting"
                                 THEN Schedule(m, Item("grace", 0, playerId, x))
                                 ELSE StartEpisode(m, phase)
                         ELSE Self
               IN Becomes(Schedule(s1, Item("purge", 0, playerId, x)))
    /\ UNCHANGED <<lobbies, currentLobbyId, playerToSocket, budget, started,
                   socketToPlayer, lobbyCode, guests, published>>
    /\ UNCHANGED rateVars

\* a waiting lobby of two identities, each on its first connection; every
\* client opens up to MaxSockets connections
InitSockets ==
    InitLobby(NumPlayers - 1, {}, StartLives, TurnTime, Allowance(0, 0, 0, 0))

NextSockets ==
    \/ \E p \in Known : Connect(p)
    \/ \E x \in connected, pid \in Known : SocketAuth(x, pid)
    \/ \E x \in connected, pid \in Known, l \in {TheLobby, NoLobby} : PlayerRestore(x, pid, l)
    \/ \E x \in connected, phase \in AfkPhases : SocketDisconnect(x, phase)
    \/ \E i \in 1..Len(pending) : GraceCb(i)
    \/ \E i \in 1..Len(pending) : PurgeCb(i)

SpecSockets == InitSockets /\ [][NextSockets]_vars

\* ------------------------------------------------------------------ claims
\* C1: in every turn (from one nextTurn to the next nextTurn or endGame) the
\* timeout life-loss and the score of an accepted word never both occur.
C1_NeverBoth == ~(turnTimeouts >= 1 /\ turnAccepts >= 1)

\* C2: once a word has been accepted, every further game:submit before the
\* next turn starts is rejected: at most one word is accepted per turn.
C2_OneAcceptPerTurn == turnAccepts <= 1

\* C3: between the start of a turn and the start of the next, handleTimeout
\* takes exactly one life, whether the turn timer, the AFK checker or both in
\* succession trigger it: never a second life in the same turn.
C3_OneLifePerTurn == turnTimeouts <= 1

\* C4: in every reachable state the lobby has at most one live turn-timer
\* interval: no sequence of startGame, submitWord, handleTimeout, endGame,
\* destroy and their delayed callbacks leaves two intervals ticking.
C4_OneTurnTimer == Cardinality(LiveTimers(pending)) <= 1

\* a turn that was started by a delayed callback, after an earlier turn's
\* interval had been created, is ticking
C4_Witness ==
    /\ state = "playing"
    /\ currentTurnIndex > 0
    /\ Cardinality(LiveTimers(pending)) = 1
    /\ timerValue < TurnTime


\* the number of pending timers of a kind
Count(pend, kind) == Cardinality({k \in 1..Len(pend) : pend[k].kind = kind})
Lives(ps) == [k \in 1..Len(ps) |-> ps[k].lives]

\* a turn callback that was pending when endGame or destroy ran, runs
StaleRun ==
    \E i \in 1..Len(pending) :
        /\ pending[i].stale
        /\ \/ TimerTick(i)
           \/ \E syl \in SYLLABLES : AdvanceCb(i, syl)
           \/ \E syl \in SYLLABLES : TimeoutCb(i, syl)

\* C5: after the lobby was destroyed or its game ended, no turn callback
\* scheduled earlier changes the lobby's state, currentTurnIndex or any
\* player's lives, runs endGame again, or starts a new turn timer.
C5_NoStaleCallback ==
    [][StaleRun =>
          /\ state' = state
          /\ currentTurnIndex' = currentTurnIndex
          /\ Lives(players') = Lives(players)
          /\ Count(pending', "reset") <= Count(pending, "reset")
          /\ Count(pending', "tick") <= Count(pending, "tick")]_vars

\* C6: the state changes only along waiting -> playing, playing -> finished
\* and finished -> waiting; game:start never restarts a finished lobby.
C6_StateCycle ==
    [][state' # state =>
          <<state, state'>> \in {<<"waiting", "playing">>, <<"playing", "finished">>,
                                 <<"finished", "waiting">>}]_vars

\* C7: whenever the state is playing and players is non-empty,
\* 0 <= currentTurnIndex < len(players).
C7_TurnIndexInRange ==
    state = "playing" /\ Len(players) > 0
        => currentTurnIndex >= 0 /\ currentTurnIndex < Len(players)

\* the first player left while the last one was active, after the first two
\* had each had a word accepted: the index moved down with the active seat
C7_Witness ==
    /\ state = "playing"
    /\ Len(players) = 2
    /\ players[1].id = 2 /\ players[1].wordsCompleted = 1
    /\ players[2].id = 3 /\ players[2].wordsCompleted = 0
    /\ Cardinality(usedWords) = 2
    /\ currentTurnIndex = 1
    /\ Cardinality(LiveTimers(pending)) = 1

\* the conditions of acceptance as the claim lists them
AcceptCond(p, w) ==
    LET nw == toLowerCase(sanitizeText(w, MaxWordLen))
    IN /\ state = "playing"
       /\ ~turnLocked
       /\ currentTurnIndex >= 0 /\ currentTurnIndex < Len(players)
       /\ players[currentTurnIndex + 1].id = p
       /\ players[currentTurnIndex + 1].lives > 0
       /\ players[currentTurnIndex + 1].isConnected
       /\ Len(nw) >= settings.minWordLength
       /\ nw \notin usedWords
       /\ Includes(nw, toLowerCase(currentSyllable))
       /\ nw \in WORDS

\* C8: submitWord accepts a word (records it, scores it, schedules the
\* advance) if and only if the conditions of acceptance all hold, and in
\* every other case changes nothing.
C8_AcceptIff ==
    \A p \in Known, w \in RawWords :
        /\ AcceptCond(p, w) <=> submitWord(Self, p, w) # Self
        /\ AcceptCond(p, w) <=> toLowerCase(sanitizeText(w, MaxWordLen))
                                    \in submitWord(Self, p, w).usedWords \ usedWords

\* a turn is open after a word was accepted: one raw word is acceptable, one
\* is refused only for having been used, one only for not being in WORDS
C8_Witness ==
    /\ state = "playing" /\ ~turnLocked
    /\ \E p \in Known :
          /\ \E w \in RawWords : AcceptCond(p, w)
          /\ \E w \in RawWords : SubmitResult(Self, p, w) = "Word already used"
          /\ \E w \in RawWords :
                SubmitResult(Self, p, w) = "Invalid word or doesn't contain syllable"
          /\ \E w \in RawWords : SubmitResult(Self, p, w) = "Word too short"

\* C9: endGame (which schedules the reset) never runs while two or more
\* players have lives > 0.
C9_EndOnlyWhenDecided ==
    [][Count(pending', "reset") > Count(pending, "reset")
          => Len(getAlivePlayers(players')) <= 1]_vars

\* C10: whenever the state is playing and the turn is open (not locked, the
\* turn timer running), the player at currentTurnIndex has lives > 0.
C10_ActiveIsAlive ==
    /\ state = "playing"
    /\ ~turnLocked
    /\ \E k \in 1..Len(pending) : pending[k].kind = "tick" /\ pending[k].arg = timer
    /\ currentTurnIndex >= 0 /\ currentTurnIndex < Len(players)
    => players[currentTurnIndex + 1].lives > 0

\* C11: in every reachable state every seated player has lives >= 0 and
\* score >= 0: nothing takes a life from a player who has none left.
C11_LivesNonNegative ==
    \A k \in 1..Len(players) :
        players[k].lives >= 0 /\ OrZero(players[k].score) >= 0

\* C12: in every reachable state, state = playing implies that at least one
\* seated player has lives > 0.
C12_SomeoneAlive ==
    state = "playing" => \E k \in 1..Len(players) : players[k].lives > 0

\* a timeout has left one player alive and the game has not ended yet
C12_Witness ==
    /\ state = "playing"
    /\ turnLocked
    /\ \E k \in 1..Len(players) : players[k].lives = 0
    /\ Cardinality({k \in 1..Len(players) : players[k].lives > 0}) = 1
    /\ \E k \in 1..Len(pending) : pending[k].kind = "timeout" /\ pending[k].arg = 1

\* the grace timer of p's last disconnect has not run yet
GracePending(p) ==
    \E k \in 1..Len(pending) :
        pending[k].kind = "grace" /\ pending[k].arg = p /\ pending[k].aux = playerToSocket[p]

\* the fields of p's seat that a disconnect and a reconnect must keep
Kept(ps, p) ==
    LET k == IndexOf(ps, p)
    IN <<ps[k].lives, ps[k].score, ps[k].isReady>>

\* C13: a seated player whose connection drops keeps the seat, and a
\* reconnect with the same id before the grace timer has run finds the player
\* in the same seat, marks it connected and leaves its lives, score and
\* isReady as they were, whatever happened in the lobby in between (the
\* lobby itself still being there).
C13_ReconnectKeepsSeat ==
    [][\A p \in Known :
          /\ (online[p] /\ ~online'[p] /\ InLiveLobby(p) /\ Seated(players, p))
                => /\ Seated(players', p)
                   /\ ~players'[IndexOf(players', p)].isConnected
                   /\ Kept(players', p) = Kept(players, p)
          /\ (~online[p] /\ online'[p] /\ GracePending(p) /\ TheLobby \in lobbies)
                => /\ Seated(players, p) /\ Seated(players', p)
                   /\ IndexOf(players', p) = IndexOf(players, p)
                   /\ players'[IndexOf(players', p)].isConnected
                   /\ Kept(players', p) = Kept(players, p)]_vars

\* C14: the grace timer of a disconnect removes the seat only if the player
\* has not reconnected since that disconnect: a player who came back and
\* dropped again is not removed by the timer of the earlier disconnect.
C14_GraceOfLastDisconnect ==
    [][\A i \in 1..Len(pending) :
          (/\ pending[i].kind = "grace"
           /\ GraceCb(i)
           /\ Seated(players, pending[i].arg)
           /\ ~Seated(players', pending[i].arg))
          => pending[i].aux = playerToSocket[pending[i].arg]]_vars

\* C15: once the 5 min timer of a disconnect has run with no reconnection
\* (the identity's socket mapping is gone), the identity is purged: a
\* player:auth that presents its id does not resume it (isReconnect), a
\* replacement id is minted instead.
C15_PurgedIdIsStale ==
    [][\A p \in Known :
          (playerToSocket[p] = 0 /\ ~online[p]) => ~online'[p]]_vars

\* the timestamps of the calls of an event that were accepted at or after `from`
AcceptedSince(event, from) ==
    {k \in 1..Len(history) :
        history[k].event = event /\ ~history[k].limited /\ history[k].at >= from}

\* C16: isRateLimited accepts a call at time t if and only if fewer than N
\* accepted calls have timestamps within the trailing window ending at t; an
\* accepted call records its timestamp, a rejected call records none.
C16_SlidingWindow ==
    [][\A event \in Events :
          isRateLimited(event) =>
             LET limited == history'[Len(history')].limited
                 inWindow == AcceptedSince(event, now - windowMs(event))
             IN /\ ~limited <=> Cardinality(inWindow) < maxRequests(event)
                /\ limited => Len(rateLimits'[event]) <= Len(rateLimits[event])
                /\ limited => \A k \in 1..Len(rateLimits'[event]) :
                                 \E j \in 1..Len(rateLimits[event]) :
                                     rateLimits'[event][k] = rateLimits[event][j]
                /\ ~limited => /\ Len(rateLimits'[event]) > 0
                               /\ rateLimits'[event][Len(rateLimits'[event])] = now]_vars

\* a call was refused at the cap, and a later call, after the window had
\* slid past the oldest timestamp, was accepted
C16_Witness ==
    \E i, j \in 1..Len(history) :
        /\ i < j
        /\ history[i].limited
        /\ ~history[j].limited
        /\ history[j].at > history[1].at + windowMs(history[1].event)
        /\ Cardinality(AcceptedSince(history[1].event, 0)) = maxRequests(history[1].event) + 1

IsRounded(r, t, m) == 2 * (50 * t - r * m) <= m /\ 2 * (r * m - 50 * t) <= m

\* C18: an accepted word of length L, with timeRemaining T and timerMax M
\* (the turnTime), adds 10 * L + round(50 * T / M) + max(0, (L - 5) * 5) to the
\* active player's score and exactly 1 to wordsCompleted; L = 6, T = 5,
\* M = 10 gives 90.
C18_ScoreFormula ==
    /\ [](totalScore(6, 5, 10) = 90)
    /\ [][Count(pending', "advance") > Count(pending, "advance") =>
             \E word \in usedWords' \ usedWords :
                LET i == currentTurnIndex + 1
                    L == Len(word)
                    T == timerValue
                    M == settings.turnTime
                IN /\ players'[i].wordsCompleted = players[i].wordsCompleted + 1
                   /\ \E r \in 0..50 :
                         /\ IsRounded(r, T, M)
                         /\ players'[i].score =
                               OrZero(players[i].score) + 10 * L + r
                                  + (IF L > 5 THEN (L - 5) * 5 ELSE 0)
                   /\ \A k \in 1..Len(players) :
                         k # i => players'[k].score = players[k].score]_vars

\* the word of 6 letters was accepted with half of the turn left: 90 points
C18_Witness ==
    /\ state = "playing"
    /\ HasCurrent(Self)
    /\ Current(Self).score = 90
    /\ Current(Self).wordsCompleted = 1
    /\ usedWords = LongWords
    /\ 2 * timerValue = settings.turnTime

\* C19: at game end the rankings hold every seated player exactly once, in
\* the order of the scores, highest first, players of equal score in the order
\* of their remaining lives, most first; the winner is the first entry.
C19_Rankings ==
    [][Count(pending', "reset") > Count(pending, "reset") =>
          \A rk \in rankings(players') :
             /\ Len(rk) = Len(players')
             /\ \A k \in 1..Len(players') :
                   Cardinality({j \in 1..Len(rk) : rk[j].id = players'[k].id}) = 1
             /\ \A i, j \in 1..Len(rk) :
                   i < j => \/ rk[i].score > rk[j].score
                            \/ rk[i].score = rk[j].score /\ rk[i].lives >= rk[j].lives
             /\ rk # << >> => winner(rk) = rk[1]]_vars

\* the seats of the lobby that are ready and connected
ReadySeats == {k \in 1..Len(players) : players[k].isReady /\ players[k].isConnected}

\* C20: game:start moves the lobby to playing only when the host sends it
\* and at least 2 seated players are ready and connected; in every other case
\* the state, the roster, the turn fields and the player fields stay as they
\* are.
C20_StartOnlyByHostWithTwoReady ==
    /\ [](\A p \in Known, syl \in SYLLABLES :
            IF InLiveLobby(p) /\ hostId = p /\ Cardinality(ReadySeats) >= 2
            THEN gameStart(p, syl).state = "playing"
            ELSE gameStart(p, syl) = Self)
    /\ [][state # "playing" /\ state' = "playing" =>
             /\ Cardinality(ReadySeats) >= 2
             /\ InLiveLobby(hostId)]_vars

\* a lobby in which the host's game:start starts a game and the game:start of
\* a seated player who is not the host changes nothing
C20_Witness ==
    /\ state = "waiting"
    /\ Cardinality(ReadySeats) >= 2
    /\ \E p \in Known, q \in Known, syl \in SYLLABLES :
          /\ online[p] /\ online[q] /\ p # q
          /\ hostId = p
          /\ Seated(players, q) /\ InLiveLobby(q)
          /\ gameStart(p, syl).state = "playing"
          /\ gameStart(q, syl) = Self

\* C21: a successful game start removes nobody from the lobby: the players who
\* were not ready or not connected are not carried into the game but are
\* still seated in the roster afterwards, unready.
C21_StartRemovesNobody ==
    [][(\E p \in Known, syl \in SYLLABLES : GameStart(p, syl)) =>
          \A k \in 1..Len(players) :
             /\ Seated(players', players[k].id)
             /\ ~(players[k].isReady /\ players[k].isConnected) =>
                   ~players'[IndexOf(players', players[k].id)].isReady]_vars

\* C22: no two live lobbies of the registry have the same code: creating a
\* lobby never yields a code that a live lobby holds.
C22_UniqueCodes ==
    \A a, b \in lobbies : a # b => lobbyCode[a] # lobbyCode[b]

\* C23: in every reachable state the settings are in their ranges,
\* maxPlayers in [2,12], startLives in [1,5], turnTime in [5,30] s and
\* minWordLength in [2,5], whatever integers lobby:settings carries; a
\* lobby:settings of a player who is not the host changes no setting.
C23_SettingsInRange ==
    /\ settings.maxPlayers \in 2..12
    /\ settings.startLives \in 1..5
    /\ settings.turnTime \in ToUnits(5)..ToUnits(30)
    /\ settings.minWordLength \in 2..5
    /\ \A p \in Known, r \in SettingsRequests :
          LET after == lobbySettings(p, r).settings
          IN /\ after.maxPlayers \in 2..12
             /\ after.startLives \in 1..5
             /\ after.turnTime \in ToUnits(5)..ToUnits(30)
             /\ after.minWordLength \in 2..5
             /\ hostId # p => after = settings

\* the host has asked for values above every range and then for a negative
\* number of players, while a player who is not the host is in the lobby
C23_Witness ==
    /\ settings = [maxPlayers |-> 2, startLives |-> 5,
                   turnTime |-> ToUnits(30), minWordLength |-> 5]
    /\ \E p \in Known : online[p] /\ InLiveLobby(p) /\ hostId # p

\* C24: a game:submit that is refused, for whatever reason (not playing, turn
\* locked, not the sender's turn, eliminated, disconnected, malformed, too
\* short, already used, not a valid word), changes nothing in the lobby
\* (usedWords, the players' fields, currentTurnIndex, turnLocked, the running
\* timer) and broadcasts nothing to the room.
C24_RefusalChangesNothing ==
    \A p \in Known, data \in Payloads :
        ~(data.type = "string" /\ InLiveLobby(p) /\ AcceptCond(p, data.word)) =>
            /\ gameSubmit(p, data).lobby = Self
            /\ gameSubmit(p, data).room = << >>

\* an open turn with its timer running and a word used: the active player is
\* refused a used word, an unknown word and a malformed message, another
\* player is refused a word that the active player could send
C24_Witness ==
    /\ state = "playing" /\ ~turnLocked /\ usedWords # {}
    /\ \E k \in 1..Len(pending) : pending[k].kind = "tick" /\ pending[k].arg = timer
    /\ \E p \in Known, q \in Known, w \in RawWords :
          /\ AcceptCond(p, w)
          /\ SubmitResult(Self, q, w) = "Not your turn"
          /\ gameSubmit(q, StringOf(w)).reply = <<"game:word-rejected">>
          /\ gameSubmit(p, [type |-> "other", word |-> w]).reply = << >>
          /\ \E u \in RawWords : SubmitResult(Self, p, u) = "Word already used"
          /\ \E u \in RawWords :
                SubmitResult(Self, p, u) = "Invalid word or doesn't contain syllable"

Rejections == {"Lobby not found", "Cannot join lobby (full?)",
               "Game in progress - cannot join"}

\* C25: a lobby:join that is rejected (lobby not found, lobby full, game in
\* progress) leaves the requester where it was: the lobby it was in is still
\* live with the requester in it, its currentLobbyId is the same, and the
\* roster and turn state of the lobbies are unchanged.
C25_RejectedJoinChangesNothing ==
    \A g \in Guests, code \in Codes :
        Joinable(code) /\ guestJoin(g, code).reply \in Rejections =>
            /\ guestJoin(g, code).guest = guests[g]
            /\ guestJoin(g, code).lobbies = lobbies
            /\ guestJoin(g, code).lobby = Self

\* C26: whenever no handler or callback is running, the lobby:list published
\* last is the listing computed from the registry as it is: every change of a
\* lobby's population, settings or state is followed by a republication.
C26_ListingCurrent == published = getLobbyList(lobbies, Self, lobbyCode)

\* C27: while the lobby's state is waiting, no turn timer runs and no turn
\* callback is pending: no player's lives are decremented, and
\* currentTurnIndex and currentSyllable do not change.
C27_WaitingIsIdle ==
    /\ [](state = "waiting" /\ TheLobby \in lobbies =>
             \A k \in 1..Len(pending) : pending[k].kind \notin TurnKinds)
    /\ [][state = "waiting" /\ state' = "waiting" /\ TheLobby \in lobbies =>
             /\ currentTurnIndex' = currentTurnIndex
             /\ currentSyllable' = currentSyllable
             /\ \A k \in 1..Len(players), j \in 1..Len(players') :
                   players'[j].id = players[k].id =>
                       players'[j].lives >= players[k].lives]_vars

\* the turn of p is open in a game and p is disconnected
StalledBy(p) ==
    /\ TheLobby \in lobbies /\ state = "playing"
    /\ HasCurrent(Self) /\ Current(Self).id = p /\ ~Current(Self).isConnected

\* p keeps its seat and stays disconnected over the step
StaysDisconnected(p) ==
    /\ TheLobby \in lobbies'
    /\ \E k \in 1..Len(players') : players'[k].id = p /\ ~players'[k].isConnected

\* the callbacks that pass a turn: those of a timeout and of an accepted word
TurnCallbacks(q) == SelectSeq(q, LAMBDA it : it.kind \in {"advance", "timeout"})

TurnTimers(q) == SelectSeq(q, LAMBDA it : it.kind \in TurnKinds)

\* C29: processing the disconnect of a player changes, inside the player's
\* lobby, only that player's isConnected (to false) and disconnectedAt: the
\* roster and its order, every player's lives, score, wordsCompleted and
\* isReady, currentTurnIndex, state, usedWords and the turn timer are the
\* same after the step; the seat is not removed at that step.
C29_DisconnectOnlyFlips ==
    [][\A p \in 1..NumPlayers :
          p \in Known /\ online[p] /\ ~online'[p] =>
              /\ lobbies' = lobbies
              /\ currentLobbyId' = currentLobbyId
              /\ state' = state /\ hostId' = hostId /\ settings' = settings
              /\ currentTurnIndex' = currentTurnIndex
              /\ currentSyllable' = currentSyllable
              /\ usedWords' = usedWords
              /\ timer' = timer /\ timerValue' = timerValue
              /\ turnLocked' = turnLocked
              /\ TurnTimers(pending') = TurnTimers(pending)
              /\ Len(players') = Len(players)
              /\ \A k \in 1..Len(players) :
                    players'[k] =
                        IF players[k].id = p /\ InLiveLobby(p)
                        THEN [players[k] EXCEPT !.isConnected = FALSE, !.age = 0]
                        ELSE players[k]]_vars

\* the connection of the player whose turn is open has just dropped: words
\* have been played, the turn timer runs, the seat is kept
C29_Witness ==
    \E p \in Known :
        /\ ~online[p] /\ InLiveLobby(p)
        /\ state = "playing" /\ usedWords # {}
        /\ HasCurrent(Self) /\ Current(Self).id = p
        /\ ~Current(Self).isConnected /\ Current(Self).age = 0
        /\ \E k \in 1..Len(pending) : pending[k].kind = "tick" /\ pending[k].arg = timer

\* C30: a lobby that enters finished and is not destroyed returns to
\* waiting, and at the step that takes it there every seated player has
\* isReady = false, lives = startLives, score = 0 and wordsCompleted = 0, and
\* the lobby:list published is the listing of the registry as it then is.
C30_ResetToWaiting ==
    /\ (state = "finished" /\ TheLobby \in lobbies)
           ~> (state = "waiting" \/ TheLobby \notin lobbies)
    /\ [][state # "waiting" /\ state' = "waiting" /\ TheLobby \in lobbies' =>
             /\ published' = getLobbyList(lobbies', Self', lobbyCode')
             /\ \A k \in 1..Len(players') :
                   /\ ~players'[k].isReady
                   /\ players'[k].lives = settings'.startLives
                   /\ players'[k].score = 0
                   /\ players'[k].wordsCompleted = 0]_vars

\* the reset has just put a played game back to waiting: two players are
\* seated, a word of the game is still in usedWords, no reset is pending
C30_Witness ==
    /\ TheLobby \in lobbies /\ state = "waiting"
    /\ usedWords # {} /\ Len(players) >= 2
    /\ \A k \in 1..Len(pending) : pending[k].kind # "reset"
    /\ \A k \in 1..Len(players) :
          ~players[k].isReady /\ players[k].lives = settings.startLives /\ players[k].score = 0
    /\ published = getLobbyList(lobbies, Self, lobbyCode)

\* C31: the two maps are mutually inverse in every state:
\* socketToPlayer[x] = p if and only if playerToSocket[p] = x.
C31_MapsInverse ==
    /\ \A x \in DOMAIN socketToPlayer : playerToSocket[socketToPlayer[x]] = x
    /\ \A p \in DOMAIN playerToSocket :
          playerToSocket[p] # 0 => MapGet(socketToPlayer, playerToSocket[p]) = p

\* C32: after every handler and callback, every lobby of the registry has a
\* non-empty roster: the lobby whose last seat is removed (lobby:leave, a
\* move to another lobby by lobby:create or lobby:join, a grace timer) is
\* destroyed and deregistered in the same step.
C32_NoEmptyLobby ==
    /\ TheLobby \in lobbies => Len(players) >= 1
    /\ \A l \in lobbies \ {TheLobby} : \E g \in Guests : guests[g].currentLobbyId = l

\* the first lobby has lost its last seat and is gone, and a guest who sat in
\* it is in a lobby of its own
C32_Witness ==
    /\ TheLobby \notin lobbies /\ Len(players) = 0
    /\ \E g \in Guests : guests[g].made >= 1 /\ guests[g].currentLobbyId \in lobbies

\* C33: game:typing changes a player's currentInput and is broadcast only
\* when the lobby is playing, the turn is not locked and the sender is the
\* player at currentTurnIndex, alive and connected; in every other case it
\* changes nothing in the lobby and broadcasts nothing; and it never changes
\* the seat of a player other than the sender.
TypingCond(p, data) ==
    /\ data.type = "string" /\ InLiveLobby(p)
    /\ state = "playing" /\ ~turnLocked
    /\ HasCurrent(Self) /\ Current(Self).id = p
    /\ Current(Self).lives > 0 /\ Current(Self).isConnected

C33_TypingOnlyByActive ==
    \A p \in Known, data \in TypingPayloads :
        LET o == gameTyping(p, data)
        IN /\ ~TypingCond(p, data) => o.lobby = Self /\ o.room = << >>
           /\ TypingCond(p, data) =>
                 /\ o.room = <<TypingEvent(p, o.lobby.players[currentTurnIndex + 1].currentInput)>>
                 /\ o.lobby = [Self EXCEPT !.players[currentTurnIndex + 1].currentInput =
                                    o.lobby.players[currentTurnIndex + 1].currentInput]
           /\ Len(o.lobby.players) = Len(players)
           /\ \A k \in 1..Len(players) : players[k].id # p => o.lobby.players[k] = players[k]

\* the active player has typed, the text is kept, and the player has
\* then lost the connection: game:typing for that seat is refused now, as it
\* is for the other player, who is seated and connected
C33_Witness ==
    /\ state = "playing" /\ ~turnLocked /\ HasCurrent(Self)
    /\ Current(Self).currentInput # << >>
    /\ ~Current(Self).isConnected /\ Current(Self).lives > 0
    /\ \E q \in Known : q # Current(Self).id /\ online[q] /\ InLiveLobby(q)
                            /\ Seated(players, q)

\* the first seat with lives > 0 in roster order (cyclic) from seat k on,
\* 0-based
AliveFrom(ps, k) ==
    LET d == CHOOSE e \in 0..(Len(ps) - 1) :
                 /\ ps[((k + e) % Len(ps)) + 1].lives > 0
                 /\ \A f \in 0..(e - 1) : ps[((k + f) % Len(ps)) + 1].lives <= 0
    IN (k + d) % Len(ps)

\* the seat the rotation passes to when the turn of player d has ended: the
\* first alive seat after d's, or from the seat that followed d's if d has
\* left in the meantime (removePlayer leaves currentTurnIndex on that seat)
NextAfter(d) ==
    IF Seated(players, d) THEN AliveFrom(players, IndexOf(players, d))
    ELSE AliveFrom(players, currentTurnIndex)

\* the callback pending[i] of an accepted word or of a timeout runs during
\* the game and the game goes on with a new turn
TurnPassed(i) ==
    /\ state = "playing" /\ state' = "playing" /\ TheLobby \in lobbies
    /\ \E k \in 1..Len(players) : players[k].lives > 0
    /\ \E syl \in SYLLABLES : AdvanceCb(i, syl) \/ TimeoutCb(i, syl)

\* C34: each decided turn advances the rotation by exactly one step: when
\* the callback of an accepted word or of a timeout starts the next turn, the
\* turn it ends has not been passed on already, and the new active player is
\* the first player with lives > 0 after the previous active player in
\* roster order, so that no player with lives > 0 is skipped.
C34_OneStepPerTurn ==
    [][\A i \in 1..Len(pending) :
          TurnPassed(i) =>
              /\ turnAccepts + turnTimeouts >= 1
              /\ currentTurnIndex' = NextAfter(pending[i].aux)]_vars

Ids(ps) == [k \in 1..Len(ps) |-> ps[k].id]

\* C35: removing a player other than the active one while the state is
\* playing, when the game does not end by it, leaves the player at
\* currentTurnIndex the same: a seat before the active index shifts the index
\* down by one, a seat after it leaves the index unchanged.
C35_RemovalKeepsActive ==
    \A k \in 0..(Len(players) - 1) :
        LET r == removePlayer(Self, players[k + 1].id)
        IN state = "playing" /\ HasCurrent(Self) /\ k # currentTurnIndex
           /\ IndexOf(players, players[k + 1].id) = k + 1 /\ r.state = "playing" =>
              /\ Ids(r.players) = Ids(RemoveAt(players, k + 1))
              /\ r.currentTurnIndex = IF k < currentTurnIndex THEN currentTurnIndex - 1
                                       ELSE currentTurnIndex
              /\ HasCurrent(r) /\ Current(r).id = Current(Self).id

\* the first player had a word accepted, the turn passed to the second, and
\* the first player's seat was removed: the index moved from 1 to 0 and the
\* second player is still the active one
C35_Witness ==
    /\ state = "playing" /\ ~turnLocked /\ Len(players) = NumPlayers
    /\ Ids(players) = [k \in 1..NumPlayers |-> k + 1]
    /\ currentTurnIndex = 0 /\ turnAccepts = 0 /\ turnTimeouts = 0
    /\ Cardinality(usedWords) = 1
    /\ \A k \in 1..Len(players) : players[k].lives > 0 /\ players[k].wordsCompleted = 0

SeatsOf(ps, p) == SelectSeq(ps, LAMBDA seat : seat.id = p)
TimersOf(pend, p) ==
    SelectSeq(pend, LAMBDA it : it.kind \in {"grace", "purge"} /\ it.arg = p)
Untouched(p) ==
    /\ SeatsOf(players', p) = SeatsOf(players, p)
    /\ TimersOf(pending', p) = TimersOf(pending, p)
    /\ playerToSocket'[p] = playerToSocket[p]
    /\ MapGet(socketToPlayer', playerToSocket[p]) = MapGet(socketToPlayer, playerToSocket[p])
    /\ currentLobbyId'[p] = currentLobbyId[p]

\* C37 (as amended): the disconnect of a connection x that is processed after
\* identity p was bound to another connection (player:auth or player:restore
\* with p's id) has no effect on p: the seat is not marked disconnected, no
\* grace or purge timer is set for p, and p's binding to its connection is
\* not removed.
C37_ReplacedDisconnectNoEffect ==
    [][\A x \in connected, p \in Known :
          x \notin connected' /\ playerToSocket[p] # x => Untouched(p)]_vars

\* C37 (as stated): the same whenever the client of p has opened a newer
\* connection, whether the player:auth on it has been processed before the
\* disconnect of the old connection or not.
C37_AnyOrderNoEffect ==
    [][\A x \in connected, p \in Known :
          /\ x \notin connected' /\ ClientOf(x) = p
          /\ \E y \in connected : ClientOf(y) = p /\ Local(y) > Local(x)
          => Untouched(p)]_vars

\* the first connection of a seated player has been closed after the player
\* was bound to the second: the seat is connected, no timer is set for the
\* player, and the binding to the second connection is in both maps
C37_Witness ==
    \E p \in Known :
        /\ InLiveLobby(p) /\ SeatsOf(players, p) # << >>
        /\ \A k \in 1..Len(players) : players[k].id = p => players[k].isConnected
        /\ Socket(p, 1) \notin connected
        /\ playerToSocket[p] = Socket(p, 2) /\ Socket(p, 2) \in connected
        /\ MapGet(socketToPlayer, Socket(p, 2)) = p
        /\ TimersOf(pending, p) = << >>

\* C38: in every reachable state a lobby with a non-empty roster has a host
\* who is seated in it: hostId is the id of some player in players.
C38_HostIsSeated ==
    TheLobby \in lobbies /\ Len(players) >= 1 => Seated(players, hostId)

\* C39: in every reachable state, an identity whose currentLobbyId refers to
\* a live lobby has a seat in that lobby's roster.
C39_MemberIsSeated ==
    \A p \in Known : InLiveLobby(p) => Seated(players, p)

\* the speed bonus that submitWord gives: Math.round((timeRemaining /
\* this.settings.turnTime) * 50) with timeRemaining = Math.max(0, timerValue)
SpeedBonus(timerVal, turnTime) == Round(Max(0, timerVal) * 50, turnTime)

\* C40: the speed bonus of an accepted word is between 0 and 50 points:
\* 0 <= timeRemaining <= turnTime whenever a submission is scored, also when
\* the host changes turnTime with lobby:settings while a turn is running.
C40_BonusInRange ==
    [][(\E p \in Known, w \in RawWords : GameSubmit(p, w)) =>
          /\ Max(0, timerValue) >= 0
          /\ Max(0, timerValue) <= settings.turnTime
          /\ SpeedBonus(timerValue, settings.turnTime) \in 0..50]_vars

====
